---- MODULE Spec2Model ----
(***************************************************************************)
(* Model of the WCAG audit pipeline (starkParser): text normalisation,     *)
(* the extraction strategies of parseStarkHtmlReport and the consolidation *)
(* engine consolidateIssues.                                               *)
(*                                                                         *)
(* Text is a sequence of one-character strings.  The literal word "passed" *)
(* that normalizeText's patterns look for is the single symbol Passed:      *)
(* every pattern of normalizeText is anchored by \b on both sides and       *)
(* begins and ends in a word character, so a match always covers whole     *)
(* words, and a word is either exactly "passed" (in any letter case, the    *)
(* patterns carry the i flag) or it is not.  No text of the model spells    *)
(* that word in letters.                                                   *)
(***************************************************************************)
EXTENDS Integers, Sequences, FiniteSets, TLC

VARIABLES
    nPc, nIn, nOut,         \* normalizeText applied to a text, and applied again
    cPc,                    \* consolidation: "input", then "done"
    rawIssues,              \* the ParsedIssue list handed to consolidateIssues
    consolidated,           \* the ConsolidatedIssue list it returned
    pPc,                    \* parseStarkHtmlReport: where the call stands
    pDoc,                   \* what DOMParser made of the HTML
    pIssues, pDebug,        \* issues and debug of parseStarkHtmlReport
    pBreakdown, pPageUrl,   \* its wcagBreakdown and pageUrl
    pCardIssues, pSynth,    \* its categoryIssues and synth
    pRan,                   \* the extractors that have run, in order
    pThrown,                \* an exception has reached the caller
    fPc, fIn, fOut,         \* a function of the parser applied to an input
    bPc,                    \* onFilesSelected: where the call stands
    bFiles, bAt,            \* its files, and the file the loop is at
    bRaw, bDebugByFile,     \* its rawIssues and debugByFile
    bReturned,              \* the issues parseStarkHtmlReport returned, file by file
    bMerged,                \* the lists handed to consolidateIssues, in order
    uiError, uiIssues,      \* the state of the component: error, issues,
    uiParsedFiles,          \*   parsedFiles,
    uiOverrides,            \*   overrides,
    uiSeverityScheme,       \*   severityScheme
    uiBusy                  \*   and busy

normVars == <<nPc, nIn, nOut>>
consVars == <<cPc, rawIssues, consolidated>>
parseVars == <<pPc, pDoc, pIssues, pDebug, pBreakdown, pPageUrl, pCardIssues,
               pSynth, pRan, pThrown>>
funVars == <<fPc, fIn, fOut>>
batchVars == <<bPc, bFiles, bAt, bRaw, bDebugByFile, bReturned, bMerged, uiError,
               uiIssues, uiParsedFiles, uiOverrides, uiSeverityScheme, uiBusy>>
vars == <<nPc, nIn, nOut, cPc, rawIssues, consolidated, pPc, pDoc, pIssues, pDebug,
          pBreakdown, pPageUrl, pCardIssues, pSynth, pRan, pThrown, fPc, fIn, fOut,
          bPc, bFiles, bAt, bRaw, bDebugByFile, bReturned, bMerged, uiError,
          uiIssues, uiParsedFiles, uiOverrides, uiSeverityScheme, uiBusy>>

\* the parts of the state a specification does not use stay idle
NormIdle == nPc = "idle" /\ nIn = <<>> /\ nOut = <<>>
ConsIdle == cPc = "idle" /\ rawIssues = <<>> /\ consolidated = <<>>
ParseIdle ==
    /\ pPc = "idle" /\ pDoc = <<>> /\ pIssues = <<>> /\ pDebug = <<>>
    /\ pBreakdown = <<>> /\ pPageUrl = <<>> /\ pCardIssues = <<>>
    /\ pSynth = <<>> /\ pRan = <<>> /\ pThrown = FALSE
FunIdle == fPc = "idle" /\ fIn = <<>> /\ fOut = <<>>
BatchIdle ==
    /\ bPc = "idle" /\ bFiles = <<>> /\ bAt = 0 /\ bRaw = <<>>
    /\ bDebugByFile = <<>> /\ bReturned = <<>> /\ bMerged = <<>>
    /\ uiError = <<>> /\ uiIssues = <<>>
    /\ uiParsedFiles = <<>> /\ uiOverrides = {} /\ uiSeverityScheme = "unknown"
    /\ uiBusy = FALSE

---------------------------------------------------------------------------
(* Characters *)

\* the word "passed", in any letter case: lower-casing leaves it as it is
Passed == "passed"
Digits == {"0", "1", "2", "3", "4", "5", "6", "7", "8", "9"}
Whitespace == {" ", "\t"}
UpperLetters ==
    <<"A", "B", "C", "D", "E", "F", "G", "H", "I", "J", "K", "L", "M",
      "N", "O", "P", "Q", "R", "S", "T", "U", "V", "W", "X", "Y", "Z">>
LowerLetters ==
    <<"a", "b", "c", "d", "e", "f", "g", "h", "i", "j", "k", "l", "m",
      "n", "o", "p", "q", "r", "s", "t", "u", "v", "w", "x", "y", "z">>
LowerCaseLetters == {LowerLetters[i] : i \in 1..Len(LowerLetters)}
Letters == {UpperLetters[i] : i \in 1..Len(UpperLetters)} \cup LowerCaseLetters

\* \w of the regular expressions: letters and digits (and the word "passed")
WordChars == Digits \cup Letters \cup {Passed}
IsWordChar(c) == c \in WordChars

At(s, i) == IF i >= 1 /\ i <= Len(s) THEN s[i] ELSE ""

\* \b just before position i (1-based; i = Len(s)+1 is the end of the text)
Boundary(s, i) == IsWordChar(At(s, i - 1)) # IsWordChar(At(s, i))

RECURSIVE DigitRun(_, _)
\* length of the longest run of digits starting at i: the greedy \d+ / \d*
DigitRun(s, i) ==
    IF At(s, i) \in Digits THEN 1 + DigitRun(s, i + 1) ELSE 0

RECURSIVE SpaceRun(_, _)
\* length of the longest run of whitespace starting at i: the greedy \s+ / \s*
SpaceRun(s, i) ==
    IF At(s, i) \in Whitespace THEN 1 + SpaceRun(s, i + 1) ELSE 0

\* const name = value, then the rest: a value is named and used
With(value, Use(_)) == Use(value)

\* the least number of a set of numbers that is not empty
Least(S) == CHOOSE i \in S : \A j \in S : i <= j

\* the position behind the digits that start at i (behind the greedy \d*)
SkipDigits(s, i) == i + DigitRun(s, i)

\* the position behind the whitespace that starts at i (behind the greedy \s*)
SkipSpaces(s, i) == i + SpaceRun(s, i)

RECURSIVE CollapseFrom(_, _)
\* .replace(/\s+/g, " ") from position i on: what lies before the first run of
\* whitespace is kept, the run becomes one space
CollapseFrom(s, i) ==
    With({j \in i..Len(s) : s[j] \in Whitespace}, LAMBDA runs :
        IF runs = {} THEN SubSeq(s, i, Len(s))
        ELSE SubSeq(s, i, Least(runs) - 1) \o <<" ">>
                 \o CollapseFrom(s, SkipSpaces(s, Least(runs))))

RECURSIVE TrimStart(_)
TrimStart(s) ==
    IF Len(s) > 0 /\ s[1] \in Whitespace THEN TrimStart(Tail(s)) ELSE s

RECURSIVE TrimEnd(_)
TrimEnd(s) ==
    IF Len(s) > 0 /\ s[Len(s)] \in Whitespace
    THEN TrimEnd(SubSeq(s, 1, Len(s) - 1)) ELSE s

\* String.prototype.trim
Trim(s) == TrimEnd(TrimStart(s))

\* value.replace(/\s+/g, " ").trim()
CollapseTrim(s) == Trim(CollapseFrom(s, 1))

\* a pattern matches from i to e, the word "passed" being at p: the length
\* of the match, 0 when there is none
ArtifactFits(s, i, p, e, leads, trails) ==
    IF Boundary(s, i) /\ leads /\ At(s, p) = Passed /\ trails /\ Boundary(s, e)
    THEN e - i ELSE 0

(* The four artifact patterns of normalizeText.  ArtifactMatch(pat, s, i)   *)
(* is the length of the match of pattern pat that starts at position i, or  *)
(* 0 when there is none.  \d+ and \s* are greedy and what must follow them  *)
(* is neither a digit nor whitespace, so the longest run is the only one    *)
(* that can match.                                                          *)
ArtifactMatch(pat, s, i) ==
    CASE pat = 1 ->     \* /\b\d+passed\d+\b/gi
         With(SkipDigits(s, i), LAMBDA p :
             ArtifactFits(s, i, p, SkipDigits(s, p + 1),
                          p > i, DigitRun(s, p + 1) > 0))
      [] pat = 2 ->     \* /\b\d+\s*passed\s*\d+\b/gi
         With(SkipSpaces(s, SkipDigits(s, i)), LAMBDA p :
             With(SkipSpaces(s, p + 1), LAMBDA q :
                 ArtifactFits(s, i, p, SkipDigits(s, q),
                              DigitRun(s, i) > 0, DigitRun(s, q) > 0)))
      [] pat = 3 ->     \* /\bpassed\s*\d+\b/gi
         With(SkipSpaces(s, i + 1), LAMBDA q :
             ArtifactFits(s, i, i, SkipDigits(s, q), TRUE, DigitRun(s, q) > 0))
      [] OTHER ->       \* /\b\d+\s*passed\b/gi
         With(SkipSpaces(s, SkipDigits(s, i)), LAMBDA p :
             ArtifactFits(s, i, p, p + 1, DigitRun(s, i) > 0, TRUE))

RECURSIVE StripFrom(_, _, _)
\* t.replace(pattern, ""): leftmost matches, left to right, none overlapping;
\* what lies before the first match from i on is kept, the match is left out
StripFrom(pat, s, i) ==
    With({j \in i..Len(s) : ArtifactMatch(pat, s, j) > 0}, LAMBDA hits :
        IF hits = {} THEN SubSeq(s, i, Len(s))
        ELSE SubSeq(s, i, Least(hits) - 1)
                 \o StripFrom(pat, s, Least(hits) + ArtifactMatch(pat, s, Least(hits))))

StripArtifacts(pat, s) == StripFrom(pat, s, 1)

RECURSIVE StripEach(_, _)
\* the patterns are applied one after the other, each to what the one before
\* it left
StripEach(pats, t) ==
    IF pats = <<>> THEN t
    ELSE StripEach(Tail(pats), StripArtifacts(Head(pats), t))

\* the body of normalizeText
NormalizeSteps(value) ==
    CollapseTrim(StripEach(<<1, 2, 3, 4>>, CollapseTrim(value)))

---------------------------------------------------------------------------
(* The texts of the documents of the pool *)

LabelNonText == <<"1", ".", "1", ".", "1", " ", "N", "o", "n", "-", "t", "e",
    "x", "t", " ", "C", "o", "n", "t", "e", "n", "t">>
LabelContrast == <<"1", ".", "4", ".", "3", " ", "C", "o", "n", "t", "r", "a",
    "s", "t", " ", "(", "M", "i", "n", "i", "m", "u", "m", ")", " ", "3", " ",
    "F", "a", "i", "l", "u", "r", "e", "s", " ", "2", " ", "P", "o", "t", "e",
    "n", "t", "i", "a", "l", "s">>
LabelDistinguishable == <<"1", ".", "4", " ", "D", "i", "s", "t", "i", "n", "g",
    "u", "i", "s", "h", "a", "b", "l", "e", " ", "1", "2">>
\* a label that the export ran together with its counters
LabelCounters ==
    <<"2", ".", "4", ".", "4", " ", "L", "i", "n", "k", " ", "1", " ", "1", " ",
        "1">> \o <<Passed, " ", Passed, " ", Passed>> \o <<" ", "P", "u", "r",
        "p", "o", "s", "e">>

AriaAltFive == <<"V", "i", "o", "l", "a", "t", "i", "o", "n", ".", " ", "I",
    "m", "a", "g", "e", " ", "m", "i", "s", "s", "i", "n", "g", " ", "a", "l",
    "t", " ", "t", "e", "x", "t", ".", " ", "(", "5", " ", "i", "n", "s", "t",
    "a", "n", "c", "e", "s", ")">>
AriaAltOne == <<"V", "i", "o", "l", "a", "t", "i", "o", "n", ".", " ", "I", "m",
    "a", "g", "e", " ", "m", "i", "s", "s", "i", "n", "g", " ", "a", "l", "t",
    " ", "t", "e", "x", "t", ".", " ", "(", "1", " ", "i", "n", "s", "t", "a",
    "n", "c", "e", ")">>
AriaAltZero == <<"P", "o", "t", "e", "n", "t", "i", "a", "l", " ", "V", "i",
    "o", "l", "a", "t", "i", "o", "n", ".", " ", "M", "i", "s", "s", "i", "n",
    "g", " ", "a", "l", "t", " ", "a", "t", "t", "r", "i", "b", "u", "t", "e",
    ".", " ", "(", "0", " ", "i", "n", "s", "t", "a", "n", "c", "e", "s",
    ")">>
AriaContrast == <<"P", "o", "t", "e", "n", "t", "i", "a", "l", " ", "V", "i",
    "o", "l", "a", "t", "i", "o", "n", ".", " ", "L", "o", "w", " ", "c", "o",
    "n", "t", "r", "a", "s", "t", ".", " ", "(", "2", " ", "i", "n", "s", "t",
    "a", "n", "c", "e", "s", ")">>
TitleContrast == <<"L", "o", "w", " ", "c", "o", "n", "t", "r", "a", "s", "t",
    " ", "-", " ", "(", "2", " ", "i", "n", "s", "t", "a", "n", "c", "e", "s",
    ")">>
AriaLink == <<"V", "i", "o", "l", "a", "t", "i", "o", "n", ".", " ", "L", "i",
    "n", "k", " ", "h", "a", "s", " ", "n", "o", " ", "n", "a", "m", "e", ".",
    " ", "(", "3", " ", "i", "n", "s", "t", "a", "n", "c", "e", "s", ")">>
AriaEmpty == <<"V", "i", "o", "l", "a", "t", "i", "o", "n", ".">>
AriaInstances == <<"I", "n", "s", "t", "a", "n", "c", "e", "s">>

CodeImgA == <<"<", "i", "m", "g", " ", "s", "r", "c", "=", "a", ".", "p", "n", "g", ">">>
CodeImgB == <<"<", "I", "M", "G", " ", " ", "s", "r", "c", "=", "b", ".", "p",
    "n", "g", ">">>
CodeDiv == <<"<", "d", "i", "v", ">", "x", "<", "/", "d", "i", "v", ">">>

HeadIssue == <<"I", "s", "s", "u", "e">>
HeadSeverity == <<"S", "e", "v", "e", "r", "i", "t", "y">>
HeadCount == <<"#", " ", "C", "o", "u", "n", "t">>
HeadDescription == <<"D", "e", "s", "c", "r", "i", "p", "t", "i", "o", "n">>
HeadName == <<"N", "a", "m", "e">>
HeadDate == <<"D", "a", "t", "e">>
CellLabel == <<"M", "i", "s", "s", "i", "n", "g", " ", "l", "a", "b", "e", "l">>
CellHigh == <<"H", "i", "g", "h">>
CellField == <<"F", "i", "e", "l", "d", " ", "h", "a", "s", " ", "n", "o", " ",
    "l", "a", "b", "e", "l">>
CellZero == <<"E", "m", "p", "t", "y", " ", "l", "i", "n", "k">>
CellSerious == <<"S", "e", "r", "i", "o", "u", "s">>

BlockSeverity == <<"B", "u", "t", "t", "o", "n", " ", "n", "a", "m", "e", " ",
    "S", "e", "v", "e", "r", "i", "t", "y", ":", " ", "H", "i", "g", "h", " ",
    "B", "u", "t", "t", "o", "n", " ", "h", "a", "s", " ", "n", "o", " ", "n",
    "a", "m", "e">>
BlockHeading == <<"B", "u", "t", "t", "o", "n", " ", "n", "a", "m", "e">>

PageUrlText == <<"h", "t", "t", "p", ":", "/", "/", "s", "i", "t", "e", ".",
    "t", "e", "s", "t", "/", "h", "o", "m", "e">>
BodyWithUrl == <<"S", "c", "a", "n", "n", "e", "d", " ", "(", "h", "t", "t",
    "p", "s", ":", "/", "/", "s", "i", "t", "e", ".", "t", "e", "s", "t", "/",
    "a", ")", " ", "t", "o", "d", "a", "y">>

\* The texts the pools are built from.  normalizeText is applied
\* to them over and over, so its value on them is computed once and looked
\* up; on any other text it is computed on the spot.
PoolTexts ==
    { <<>>, <<"a">>, <<"A">>, <<"d">>, <<"r">>, <<"u">>, <<"i">>,
      <<"u", " ", Passed, " ", "1">>, <<"0">>, <<"3">>, <<"4">>, <<"5">>, <<"7">>,
      LabelNonText, LabelContrast, LabelDistinguishable, LabelCounters,
      AriaAltFive, AriaAltOne, AriaAltZero, AriaContrast, TitleContrast,
      AriaLink, AriaEmpty, AriaInstances, CodeImgA, CodeImgB, CodeDiv,
      HeadIssue, HeadSeverity, HeadCount, HeadDescription, HeadName,
      HeadDate, CellLabel, CellHigh, CellField, CellZero, CellSerious,
      BlockSeverity, BlockHeading, PageUrlText, BodyWithUrl }

NormalizedPoolText == [t \in PoolTexts |-> NormalizeSteps(t)]

normalizeText(value) ==
    IF value \in PoolTexts THEN NormalizedPoolText[value] ELSE NormalizeSteps(value)

---------------------------------------------------------------------------
(* Severities *)

SeverityLabel == {"Critical", "Serious", "Moderate", "Minor", "Unknown"}

SEVERITY_ORDER(v) ==
    CASE v = "Critical" -> 4
      [] v = "Serious" -> 3
      [] v = "Moderate" -> 2
      [] v = "Minor" -> 1
      [] OTHER -> 0

RECURSIVE PickFrom(_, _, _)
PickFrom(values, i, best) ==
    IF i > Len(values) THEN best
    ELSE PickFrom(values, i + 1,
                  IF SEVERITY_ORDER(values[i]) > SEVERITY_ORDER(best)
                  THEN values[i] ELSE best)

\* the bug of taking every value as the new best: the last one wins
pickLastSeverity(values) ==
    IF Len(values) = 0 THEN "Unknown" ELSE values[Len(values)]

pickHighestSeverity(values) == PickFrom(values, 1, "Unknown")

---------------------------------------------------------------------------
(* Helpers on lists and texts *)

\* an optional text that is absent (undefined); normalizeText(undefined) = ""
Absent == <<>>

\* the lower-case letter of each upper-case letter
LowerOf ==
    [c \in {UpperLetters[i] : i \in 1..Len(UpperLetters)} |->
        LowerLetters[CHOOSE i \in 1..Len(UpperLetters) : UpperLetters[i] = c]]

ToLowerChar(c) == IF c \in DOMAIN LowerOf THEN LowerOf[c] ELSE c

\* String.prototype.toLowerCase, character by character
toLowerCase(s) == [i \in 1..Len(s) |-> ToLowerChar(s[i])]

RECURSIVE DedupFrom(_, _, _)
\* Array.from(new Set(list)): the distinct values in order of first appearance
DedupFrom(list, i, acc) ==
    IF i > Len(list) THEN acc
    ELSE DedupFrom(list, i + 1,
                   IF \E j \in 1..Len(acc) : acc[j] = list[i]
                   THEN acc ELSE Append(acc, list[i]))

Dedup(list) == DedupFrom(list, 1, <<>>)

\* list.filter(Boolean) on a list of texts: the empty text is dropped
NonEmpty(list) == SelectSeq(list, LAMBDA t : t # <<>>)

SnippetMax == 420
Ellipsis == "\\u2026"

\* the bug of a snippet that is kept whole
clampSnippetUncut(value) == normalizeText(value)

clampSnippet(value) ==
    With(normalizeText(value), LAMBDA v :
        IF Len(v) <= SnippetMax THEN v
        ELSE Append(SubSeq(v, 1, SnippetMax - 1), Ellipsis))

MaxSnippets == 8

\* a || b on texts
OrElse(a, b) == IF a # <<>> THEN a ELSE b

\* the title of an issue that has none
IssueTitle == <<"I", "s", "s", "u", "e">>

RECURSIVE ListsUpTo(_, _)
ListsUpTo(S, n) ==
    IF n = 0 THEN {<<>>}
    ELSE LET prev == ListsUpTo(S, n - 1)
         IN  prev \cup {Append(l, x) : l \in {m \in prev : Len(m) = n - 1}, x \in S}

---------------------------------------------------------------------------
(* Matching helpers for the regular expressions of the parser *)

\* the text s holds the word w at position i
HasAt(s, i, w) ==
    /\ i >= 1
    /\ i + Len(w) - 1 <= Len(s)
    /\ SubSeq(s, i, i + Len(w) - 1) = w

Contains(s, w) == \E i \in 1..(Len(s) - Len(w) + 1) : HasAt(s, i, w)

\* a pattern (w1|w2|...) is found in s
ContainsAny(s, words) == \E w \in words : Contains(s, w)

DigitSeq == <<"0", "1", "2", "3", "4", "5", "6", "7", "8", "9">>
DigitValue(c) == (CHOOSE k \in 1..10 : DigitSeq[k] = c) - 1

RECURSIVE ParseDigits(_, _, _, _)
\* Number.parseInt of the n digits of s from position i on (acc: the value so far)
ParseDigits(s, i, n, acc) ==
    IF n = 0 THEN acc
    ELSE ParseDigits(s, i + 1, n - 1, 10 * acc + DigitValue(s[i]))

\* no number: the result of a match that failed
NoNumber == -1

\* Number.parseInt(s.match(/\d+/)[0], 10), NoNumber when s holds no digit
FirstInt(s) ==
    With({i \in 1..Len(s) : s[i] \in Digits}, LAMBDA at :
        IF at = {} THEN NoNumber
        ELSE ParseDigits(s, Least(at), DigitRun(s, Least(at)), 0))

\* the bug of a count that is not coerced: a first integer of 0 is returned
parseOccurrencesUncoerced(value) ==
    With(normalizeText(value), LAMBDA v :
        With(FirstInt(v), LAMBDA n :
            IF v = <<>> THEN 1
            ELSE IF n = NoNumber THEN 1
            ELSE n))

\* the bug of reading the count from the text as it came
parseOccurrencesOfRawText(value) ==
    With(value, LAMBDA v :
        With(FirstInt(v), LAMBDA n :
            IF v = <<>> THEN 1
            ELSE IF n = NoNumber THEN 1
            ELSE IF n > 0 THEN n ELSE 1))

parseOccurrences(value) ==
    With(normalizeText(value), LAMBDA v :
        With(FirstInt(v), LAMBDA n :
            IF v = <<>> THEN 1
            ELSE IF n = NoNumber THEN 1
            ELSE IF n > 0 THEN n ELSE 1))

\* NoNumber stands for undefined
parseFirstPositiveInt(value) == FirstInt(normalizeText(value))

---------------------------------------------------------------------------
(* Severity labels *)

CriticalWords == {<<"c", "r", "i", "t", "i", "c", "a", "l">>, <<"b", "l", "o",
    "c", "k", "e", "r">>, <<"s", "e", "v", "e", "r", "e">>}
SeriousWords == {<<"s", "e", "r", "i", "o", "u", "s">>, <<"h", "i", "g", "h">>}
ModerateWords == {<<"m", "o", "d", "e", "r", "a", "t", "e">>, <<"m", "e", "d",
    "i", "u", "m">>}
MinorWords == {<<"m", "i", "n", "o", "r">>, <<"l", "o", "w">>}

\* the bug of testing the levels from the lowest up
normalizeSeverityLowestFirst(value) ==
    With(toLowerCase(value), LAMBDA v :
        IF ContainsAny(v, MinorWords) THEN "Minor"
        ELSE IF ContainsAny(v, ModerateWords) THEN "Moderate"
        ELSE IF ContainsAny(v, SeriousWords) THEN "Serious"
        ELSE IF ContainsAny(v, CriticalWords) THEN "Critical"
        ELSE "Unknown")

normalizeSeverity(value) ==
    With(toLowerCase(value), LAMBDA v :
        IF ContainsAny(v, CriticalWords) THEN "Critical"
        ELSE IF ContainsAny(v, SeriousWords) THEN "Serious"
        ELSE IF ContainsAny(v, ModerateWords) THEN "Moderate"
        ELSE IF ContainsAny(v, MinorWords) THEN "Minor"
        ELSE "Unknown")

---------------------------------------------------------------------------
(* Alt-text cards *)

\* /(^|\b)(alt|alt text|alternate text)\b|missing\s+alt|image\s+.*\balt\b|non-text\s+content/
\* The alternative image\s+.*\balt\b needs a \balt\b in the text, which the
\* first alternative finds as well, so it adds no match of its own.
isAltTextRelated(description) ==
    With(toLowerCase(normalizeText(description)), LAMBDA hay :
        \E i \in 1..Len(hay) :
            \/ /\ Boundary(hay, i)
               /\ \/ HasAt(hay, i, <<"a", "l", "t">>) /\ Boundary(hay, i + 3)
                  \/ HasAt(hay, i, <<"a", "l", "t", "e", "r", "n", "a", "t", "e", " ", "t", "e", "x", "t">>) /\ Boundary(hay, i + 14)
            \/ /\ HasAt(hay, i, <<"m", "i", "s", "s", "i", "n", "g">>)
               /\ SpaceRun(hay, i + 7) > 0
               /\ HasAt(hay, SkipSpaces(hay, i + 7), <<"a", "l", "t">>)
            \/ /\ HasAt(hay, i, <<"n", "o", "n", "-", "t", "e", "x", "t">>)
               /\ SpaceRun(hay, i + 8) > 0
               /\ HasAt(hay, SkipSpaces(hay, i + 8), <<"c", "o", "n", "t", "e", "n", "t">>))

\* /<\s*tag\b/ at position i
OpensTag(s, i, tag) ==
    /\ At(s, i) = "<"
    /\ HasAt(s, SkipSpaces(s, i + 1), tag)
    /\ Boundary(s, SkipSpaces(s, i + 1) + Len(tag))

isUsefulAltExampleSnippet(snippet) ==
    With(toLowerCase(normalizeText(snippet)), LAMBDA s :
        \E i \in 1..Len(s) :
            \/ OpensTag(s, i, <<"i", "m", "g">>)
            \/ /\ Boundary(s, i) /\ HasAt(s, i, <<"a", "l", "t">>)     \* /\balt\s*=/
               /\ At(s, SkipSpaces(s, i + 3)) = "="
            \/ OpensTag(s, i, <<"p", "i", "c", "t", "u", "r", "e">>)
            \/ OpensTag(s, i, <<"s", "o", "u", "r", "c", "e">>))

---------------------------------------------------------------------------
(* categorizeIssue *)

RECURSIVE PhraseAt(_, _, _)
\* the words w1\s+w2\s+... of a pattern are found in s from position i on
PhraseAt(s, i, words) ==
    /\ HasAt(s, i, Head(words))
    /\ \/ Len(words) = 1
       \/ /\ SpaceRun(s, i + Len(Head(words))) > 0
          /\ PhraseAt(s, SkipSpaces(s, i + Len(Head(words))), Tail(words))

\* /w1\s+w2\s+.../.test(s)
HasPhrase(s, words) == \E i \in 1..Len(s) : PhraseAt(s, i, words)

\* /(w1|w2|...)\b/.test(s)
HasWordEnd(s, words) ==
    \E w \in words : \E i \in 1..Len(s) : HasAt(s, i, w) /\ Boundary(s, i + Len(w))

\* /w\b.*(l1|l2|...)/.test(s)
HasLater(s, w, laters) ==
    \E i \in 1..Len(s) :
        /\ HasAt(s, i, w) /\ Boundary(s, i + Len(w))
        /\ \E j \in (i + Len(w))..Len(s) : \E l \in laters : HasAt(s, j, l)

\* /(^|\b)(alt|alt text|alternate text)\b|missing\s+alt|image\s+.*\balt\b|non-text\s+content/
\* (^|\b) is \b before a letter; "alt text" is found by the alternative alt
MatchesAltText(hay) ==
    \/ \E i \in 1..Len(hay) :
          /\ Boundary(hay, i)
          /\ \/ HasAt(hay, i, <<"a", "l", "t">>) /\ Boundary(hay, i + 3)
             \/ HasAt(hay, i, <<"a", "l", "t", "e", "r", "n", "a", "t", "e", " ", "t",
                 "e", "x", "t">>) /\ Boundary(hay, i + 14)
    \/ HasPhrase(hay, <<<<"m", "i", "s", "s", "i", "n", "g">>, <<"a", "l", "t">>>>)
    \/ \E i \in 1..Len(hay) :
          /\ HasAt(hay, i, <<"i", "m", "a", "g", "e">>) /\ SpaceRun(hay, i + 5) > 0
          /\ \E j \in (i + 6)..Len(hay) :
                Boundary(hay, j) /\ HasAt(hay, j, <<"a", "l", "t">>) /\ Boundary(hay, j + 3)
    \/ HasPhrase(hay, <<<<"n", "o", "n", "-", "t", "e", "x", "t">>, <<"c", "o", "n", "t",
        "e", "n", "t">>>>)

\* /contrast|4\.5|3:1|color\s+contrast|background\s+is\s+an\s+image/
MatchesColorContrast(hay) ==
    \/ ContainsAny(hay, {<<"c", "o", "n", "t", "r", "a", "s", "t">>, <<"4", ".",
        "5">>, <<"3", ":", "1">>})
    \/ HasPhrase(hay, <<<<"c", "o", "l", "o", "r">>, <<"c", "o", "n", "t", "r", "a", "s",
        "t">>>>)
    \/ HasPhrase(hay, <<<<"b", "a", "c", "k", "g", "r", "o", "u", "n", "d">>, <<"i",
        "s">>, <<"a", "n">>, <<"i", "m", "a", "g", "e">>>>)

\* /label\b|labels\b|form\s+field|input\b|textarea\b|select\b|aria-label\b.*(input|textbox)|missing\s+label/
MatchesFormLabels(hay) ==
    \/ HasWordEnd(hay, {<<"l", "a", "b", "e", "l">>, <<"l", "a", "b", "e", "l",
        "s">>, <<"i", "n", "p", "u", "t">>, <<"t", "e", "x", "t", "a", "r", "e",
        "a">>, <<"s", "e", "l", "e", "c", "t">>})
    \/ HasPhrase(hay, <<<<"f", "o", "r", "m">>, <<"f", "i", "e", "l", "d">>>>)
    \/ HasLater(hay, <<"a", "r", "i", "a", "-", "l", "a", "b", "e", "l">>, {<<"i", "n",
        "p", "u", "t">>, <<"t", "e", "x", "t", "b", "o", "x">>})
    \/ HasPhrase(hay, <<<<"m", "i", "s", "s", "i", "n", "g">>, <<"l", "a", "b", "e", "l">>>>)

\* /link\b|links?\s+must\s+have\s+discernible\s+text|empty\s+link|link\s+name|anchor\b/
MatchesLinkText(hay) ==
    \/ HasWordEnd(hay, {<<"l", "i", "n", "k">>, <<"a", "n", "c", "h", "o", "r">>})
    \/ HasPhrase(hay, <<<<"l", "i", "n", "k">>, <<"m", "u", "s", "t">>, <<"h", "a", "v",
        "e">>, <<"d", "i", "s", "c", "e", "r", "n", "i", "b", "l", "e">>, <<"t", "e", "x",
        "t">>>>)
    \/ HasPhrase(hay, <<<<"l", "i", "n", "k", "s">>, <<"m", "u", "s", "t">>, <<"h", "a",
        "v", "e">>, <<"d", "i", "s", "c", "e", "r", "n", "i", "b", "l", "e">>, <<"t", "e",
        "x", "t">>>>)
    \/ HasPhrase(hay, <<<<"e", "m", "p", "t", "y">>, <<"l", "i", "n", "k">>>>)
    \/ HasPhrase(hay, <<<<"l", "i", "n", "k">>, <<"n", "a", "m", "e">>>>)

\* /button\b|buttons?\s+must\s+have\s+discernible\s+text|button\s+name/
MatchesButtonText(hay) ==
    \/ HasWordEnd(hay, {<<"b", "u", "t", "t", "o", "n">>})
    \/ HasPhrase(hay, <<<<"b", "u", "t", "t", "o", "n">>, <<"m", "u", "s", "t">>, <<"h",
        "a", "v", "e">>, <<"d", "i", "s", "c", "e", "r", "n", "i", "b", "l", "e">>, <<"t",
        "e", "x", "t">>>>)
    \/ HasPhrase(hay, <<<<"b", "u", "t", "t", "o", "n", "s">>, <<"m", "u", "s",
        "t">>, <<"h", "a", "v", "e">>, <<"d", "i", "s", "c", "e", "r", "n", "i", "b", "l",
        "e">>, <<"t", "e", "x", "t">>>>)
    \/ HasPhrase(hay, <<<<"b", "u", "t", "t", "o", "n">>, <<"n", "a", "m", "e">>>>)

\* /heading\b|headings\b|h1\b|h2\b|h3\b|heading\s+level|outline/
MatchesHeadings(hay) ==
    \/ HasWordEnd(hay, {<<"h", "e", "a", "d", "i", "n", "g">>, <<"h", "e", "a", "d", "i",
        "n", "g", "s">>, <<"h", "1">>, <<"h", "2">>, <<"h", "3">>})
    \/ HasPhrase(hay, <<<<"h", "e", "a", "d", "i", "n", "g">>, <<"l", "e", "v", "e", "l">>>>)
    \/ Contains(hay, <<"o", "u", "t", "l", "i", "n", "e">>)

\* /aria-(label|labelledby|describedby|hidden)\b|role\b|landmark\b|region\b|navigation\b.*aria/
MatchesAria(hay) ==
    \/ HasWordEnd(hay, {<<"a", "r", "i", "a", "-", "l", "a", "b", "e", "l">>, <<"a", "r",
        "i", "a", "-", "l", "a", "b", "e", "l", "l", "e", "d", "b", "y">>, <<"a", "r",
        "i", "a", "-", "d", "e", "s", "c", "r", "i", "b", "e", "d", "b", "y">>,
                        <<"a", "r", "i", "a", "-", "h", "i", "d", "d", "e", "n">>, <<"r",
                            "o", "l", "e">>, <<"l", "a", "n", "d", "m", "a", "r",
                            "k">>, <<"r", "e", "g", "i", "o", "n">>})
    \/ HasLater(hay, <<"n", "a", "v", "i", "g", "a", "t", "i", "o", "n">>, {<<"a", "r",
        "i", "a">>})

\* /keyboard\b|focus\b|tab\s+order|visible\s+focus|operable/
MatchesKeyboard(hay) ==
    \/ HasWordEnd(hay, {<<"k", "e", "y", "b", "o", "a", "r", "d">>, <<"f", "o", "c", "u",
        "s">>})
    \/ HasPhrase(hay, <<<<"t", "a", "b">>, <<"o", "r", "d", "e", "r">>>>)
    \/ HasPhrase(hay, <<<<"v", "i", "s", "i", "b", "l", "e">>, <<"f", "o", "c", "u", "s">>>>)
    \/ Contains(hay, <<"o", "p", "e", "r", "a", "b", "l", "e">>)

\* /(\blang\b|language\s+of\s+page|language\s+of\s+parts)/
MatchesLanguage(hay) ==
    \/ \E i \in 1..Len(hay) :
          Boundary(hay, i) /\ HasAt(hay, i, <<"l", "a", "n", "g">>) /\ Boundary(hay, i + 4)
    \/ HasPhrase(hay, <<<<"l", "a", "n", "g", "u", "a", "g", "e">>, <<"o", "f">>, <<"p",
        "a", "g", "e">>>>)
    \/ HasPhrase(hay, <<<<"l", "a", "n", "g", "u", "a", "g", "e">>, <<"o", "f">>, <<"p",
        "a", "r", "t", "s">>>>)

\* /table\b|th\b|scope\b|header\s+cell|data\s+table/
MatchesTables(hay) ==
    \/ HasWordEnd(hay, {<<"t", "a", "b", "l", "e">>, <<"t", "h">>, <<"s", "c", "o", "p", "e">>})
    \/ HasPhrase(hay, <<<<"h", "e", "a", "d", "e", "r">>, <<"c", "e", "l", "l">>>>)
    \/ HasPhrase(hay, <<<<"d", "a", "t", "a">>, <<"t", "a", "b", "l", "e">>>>)

\* normalizeText(`${ruleId ?? ""} ${wcag ?? ""} ${title} ${description}`).toLowerCase()
Haystack(input) ==
    toLowerCase(normalizeText(input.ruleId \o <<" ">> \o input.wcag \o <<" ">>
                              \o input.title \o <<" ">> \o input.description))

\* the bug of testing the rule of links before that of form labels
CategoryLinksFirst(hay) ==
    IF MatchesAltText(hay) THEN "Alt text"
    ELSE IF MatchesColorContrast(hay) THEN "Color contrast"
    ELSE IF MatchesLinkText(hay) THEN "Link text"
    ELSE IF MatchesFormLabels(hay) THEN "Form labels"
    ELSE IF MatchesButtonText(hay) THEN "Button text"
    ELSE IF MatchesHeadings(hay) THEN "Headings"
    ELSE IF MatchesAria(hay) THEN "ARIA / landmarks"
    ELSE IF MatchesKeyboard(hay) THEN "Keyboard / focus"
    ELSE IF MatchesLanguage(hay) THEN "Language"
    ELSE IF MatchesTables(hay) THEN "Tables"
    ELSE "Other"

\* lines 134-177: the rules in their order, the first that matches wins
CategoryOf(hay) ==
    IF MatchesAltText(hay) THEN "Alt text"
    ELSE IF MatchesColorContrast(hay) THEN "Color contrast"
    ELSE IF MatchesFormLabels(hay) THEN "Form labels"
    ELSE IF MatchesLinkText(hay) THEN "Link text"
    ELSE IF MatchesButtonText(hay) THEN "Button text"
    ELSE IF MatchesHeadings(hay) THEN "Headings"
    ELSE IF MatchesAria(hay) THEN "ARIA / landmarks"
    ELSE IF MatchesKeyboard(hay) THEN "Keyboard / focus"
    ELSE IF MatchesLanguage(hay) THEN "Language"
    ELSE IF MatchesTables(hay) THEN "Tables"
    ELSE "Other"

categorizeIssue(input) == CategoryOf(Haystack(input))

---------------------------------------------------------------------------

(* The parts of the documents of the pool *)

SourceFile == "report.html"

\* file.name of the file that onFilesSelected has parsed, and the name of the
\* report when parseStarkHtmlReport is taken on its own
CurrentFile == IF bPc = "parse" THEN bFiles[bAt].name ELSE SourceFile

\* ancestor chains: the element itself, then its ancestors
Self == [tag |-> "DIV", buttonTexts |-> <<>>]
ChainNonText ==
    <<Self, [tag |-> "LI", buttonTexts |-> <<LabelNonText, <<"4">>>>]>>
ChainContrast ==
    <<Self, [tag |-> "LI", buttonTexts |-> <<LabelContrast>>],
      [tag |-> "UL", buttonTexts |-> <<>>],
      [tag |-> "LI", buttonTexts |-> <<LabelDistinguishable>>]>>
ChainCounters ==
    <<Self, [tag |-> "LI", buttonTexts |-> <<LabelCounters>>]>>
ChainNone == <<Self, [tag |-> "UL", buttonTexts |-> <<>>]>>

ChainPool == {ChainNonText, ChainContrast, ChainCounters, ChainNone}

\* the elements that carry an aria-label
ElementPool ==
    { [aria |-> AriaAltFive, visibleTitle |-> Absent,
       codeTexts |-> <<CodeImgA, CodeDiv, CodeImgB>>, chain |-> ChainNonText],
      [aria |-> AriaAltOne, visibleTitle |-> Absent,
       codeTexts |-> <<CodeImgA, CodeImgB>>, chain |-> ChainNonText],
      [aria |-> AriaAltZero, visibleTitle |-> Absent,
       codeTexts |-> <<>>, chain |-> ChainNone],
      [aria |-> AriaContrast, visibleTitle |-> TitleContrast,
       codeTexts |-> <<>>, chain |-> ChainContrast],
      [aria |-> AriaLink, visibleTitle |-> Absent,
       codeTexts |-> <<>>, chain |-> ChainCounters],
      [aria |-> AriaEmpty, visibleTitle |-> Absent,
       codeTexts |-> <<>>, chain |-> ChainNone],
      [aria |-> AriaInstances, visibleTitle |-> Absent,
       codeTexts |-> <<>>, chain |-> ChainNonText] }

\* the svg badges labelled Failures or Potentials
BadgePool ==
    { [label |-> "Failures", chain |-> ChainNonText,
       innerText |-> <<"4">>, wrapperText |-> <<"4">>],
      [label |-> "Potentials", chain |-> ChainContrast,
       innerText |-> Absent, wrapperText |-> <<"3">>],
      [label |-> "Failures", chain |-> ChainContrast,
       innerText |-> <<"0">>, wrapperText |-> <<"0">>],
      [label |-> "Failures", chain |-> ChainCounters,
       innerText |-> <<"5">>, wrapperText |-> <<"5">>],
      [label |-> "Potentials", chain |-> ChainNone,
       innerText |-> <<"7">>, wrapperText |-> <<"7">>] }

IssuesTable ==
    [headerCells |-> <<HeadIssue, HeadSeverity, HeadCount, HeadDescription>>,
     dataRows |-> << <<CellLabel, CellHigh, <<"3">>, CellField>>,
                     <<Absent, Absent, Absent, Absent>>,
                     <<CellZero, CellSerious, <<"0">>, Absent>> >>]
OtherTable ==
    [headerCells |-> <<HeadName, HeadDate>>,
     dataRows |-> << <<CellLabel, <<"3">>>> >>]

\* a table with the headers of an issue table whose only row is empty
NoiseTable ==
    [headerCells |-> <<HeadSeverity, HeadDescription>>,
     dataRows |-> << <<Absent, Absent>> >>]
\* a table that names a severity but neither a description nor a title
DatedTable ==
    [headerCells |-> <<HeadSeverity, HeadDate>>,
     dataRows |-> << <<CellHigh, <<"3">>>> >>]

TablePool == {IssuesTable, OtherTable, NoiseTable, DatedTable}
MaxTables == 2
TableLists ==
    {<<>>, <<OtherTable>>, <<OtherTable, IssuesTable>>, <<NoiseTable, DatedTable>>}

SeverityBlock == [text |-> BlockSeverity, heading |-> BlockHeading]
PlainBlock == [text |-> CellField, heading |-> Absent]

CandidatePool == {SeverityBlock, PlainBlock}
CandidateLists == {<<>>, <<SeverityBlock, PlainBlock, SeverityBlock>>}

PageViews ==
    { [pTexts |-> <<>>, bodyText |-> <<>>],
      [pTexts |-> <<CellField, PageUrlText>>, bodyText |-> BodyWithUrl],
      [pTexts |-> <<CellField>>, bodyText |-> BodyWithUrl] }

---------------------------------------------------------------------------
(* WCAG criterion labels *)

CounterWords == {<<"f", "a", "i", "l", "u", "r", "e", "s">>, <<"p", "o", "t",
    "e", "n", "t", "i", "a", "l", "s">>}

\* /\s*\d*\s*(failures|potentials)\b.*$/i matches from position i on (low: s in
\* lower case)
CounterTailAt(s, low, i) ==
    With(SkipSpaces(s, SkipDigits(s, SkipSpaces(s, i))), LAMBDA w :
        \E word \in CounterWords :
            HasAt(low, w, word) /\ Boundary(s, w + Len(word)))

\* /\s*\d+\s*$/ matches from position i on
NumberTailAt(s, i) ==
    With(SkipSpaces(s, i), LAMBDA a :
        DigitRun(s, a) > 0 /\ SkipSpaces(s, SkipDigits(s, a)) = Len(s) + 1)

RECURSIVE DotSegmentsEnd(_, _)
\* the position behind the longest (?:\.\d+)* that starts at i
DotSegmentsEnd(s, i) ==
    IF At(s, i) = "." /\ DigitRun(s, i + 1) > 0
    THEN DotSegmentsEnd(s, i + 1 + DigitRun(s, i + 1))
    ELSE i

\* /^\d+(?:\.\d+)+\s+/.test(t)
LooksLikeCriterion(t) ==
    With(SkipDigits(t, 1), LAMBDA d :
        With(DotSegmentsEnd(t, d), LAMBDA e :
            d > 1 /\ e > d /\ At(t, e) \in Whitespace))

\* t.replace(pattern, "") for a pattern that ends in $: t is cut at the first
\* of the positions from which the pattern matches
CutAt(t, cut) == IF cut = {} THEN t ELSE SubSeq(t, 1, Least(cut) - 1)

sanitizeWcagLabel(raw) ==
    With(normalizeText(raw), LAMBDA t0 :
        With(toLowerCase(t0), LAMBDA low :
            With(CutAt(t0, {i \in 1..Len(t0) : CounterTailAt(t0, low, i)}), LAMBDA t1 :
                With(normalizeText(CutAt(t1, {i \in 1..Len(t1) : NumberTailAt(t1, i)})),
                     LAMBDA t :
                         IF t0 = <<>> THEN Absent
                         ELSE IF LooksLikeCriterion(t) THEN t ELSE Absent))))

MaxAncestorDepth == 15

\* the labels that the div elements of the first button of an ancestor give
CleanedLabels(cur) ==
    IF cur.tag = "LI"
    THEN SelectSeq([k \in 1..Len(cur.buttonTexts) |->
                       sanitizeWcagLabel(cur.buttonTexts[k])],
                   LAMBDA c : c # Absent)
    ELSE <<>>

RECURSIVE CandidatesFrom(_, _)
(* The candidate labels of the ancestor walk.  chain is the list of the     *)
(* elements from the starting element upwards; an element is a record of    *)
(* its tag and of the texts of the div elements in its first button (none   *)
(* when it has no button).                                                  *)
CandidatesFrom(chain, depth) ==
    IF depth >= MaxAncestorDepth \/ depth >= Len(chain) THEN <<>>
    ELSE CleanedLabels(chain[depth + 1]) \o CandidatesFrom(chain, depth + 1)

\* (a.match(/\./g) ?? []).length
DotCount(t) == Cardinality({i \in 1..Len(t) : t[i] = "."})

\* the positions of the candidates that no other has more dots than
MostDots(candidates) ==
    {k \in 1..Len(candidates) :
        \A j \in 1..Len(candidates) :
            DotCount(candidates[j]) <= DotCount(candidates[k])}

\* candidates.sort((a, b) => segB - segA)[0]: the first of those with the
\* most dots (the sort is stable); Absent when there is no candidate
BestWcagLabel(chain) ==
    With(CandidatesFrom(chain, 0), LAMBDA candidates :
        IF Len(candidates) = 0 THEN Absent
        ELSE candidates[Least(MostDots(candidates))])

\* computed once for the chains of the pool
BestWcagLabelOfPool == [chain \in ChainPool |-> BestWcagLabel(chain)]

extractBestWcagLabelFromAncestors(chain) ==
    IF chain \in ChainPool THEN BestWcagLabelOfPool[chain] ELSE BestWcagLabel(chain)

\* byWcag.get(wcag) ?? { wcag, failures: 0, potentials: 0 }
TotalsGet(byWcag, wcag) ==
    With({k \in 1..Len(byWcag) : byWcag[k].wcag = wcag}, LAMBDA hit :
        IF hit = {} THEN [wcag |-> wcag, failures |-> 0, potentials |-> 0]
        ELSE byWcag[Least(hit)])

\* byWcag.set(totals.wcag, totals)
TotalsSet(byWcag, totals) ==
    With({k \in 1..Len(byWcag) : byWcag[k].wcag = totals.wcag}, LAMBDA hit :
        IF hit = {} THEN Append(byWcag, totals)
        ELSE [byWcag EXCEPT ![Least(hit)] = totals])

\* the body of the loop, for a badge with criterion label wcag and number n
\* (NoNumber when no number stands next to it)
BadgeInto(byWcag, svg, wcag, n) ==
    IF wcag = Absent \/ n = NoNumber THEN byWcag
    ELSE TotalsSet(byWcag,
                   IF svg.label = "Failures"
                   THEN [TotalsGet(byWcag, wcag) EXCEPT !.failures = n]
                   ELSE [TotalsGet(byWcag, wcag) EXCEPT !.potentials = n])

RECURSIVE BreakdownFrom(_, _, _)
(* extractWcagBreakdownTotals: badges is the list of the svg elements       *)
(* labelled Failures or Potentials in document order, each with its         *)
(* ancestor chain, the text of the first div in the div that wraps it      *)
(* (innerText) and the text of that wrapper.  The Map byWcag is the list    *)
(* of its values in insertion order.                                        *)
BreakdownFrom(badges, i, byWcag) ==
    IF i > Len(badges) THEN byWcag
    ELSE BreakdownFrom(badges, i + 1,
             BadgeInto(byWcag, badges[i],
                       extractBestWcagLabelFromAncestors(badges[i].chain),
                       parseFirstPositiveInt(
                           OrElse(normalizeText(badges[i].innerText),
                                  normalizeText(badges[i].wrapperText)))))

extractWcagBreakdownTotals(badges) == BreakdownFrom(badges, 1, <<>>)

---------------------------------------------------------------------------
(* The table extractor *)

\* .replace(/[^a-z0-9 ]/g, "")
KeepHeaderChars(s) ==
    SelectSeq(s, LAMBDA c : c \in Digits \cup LowerCaseLetters \cup {" "})

toHeaderKey(header) ==
    Trim(KeepHeaderChars(CollapseFrom(toLowerCase(header), 1)))

\* the header patterns, each the set of the words of its alternation
SeverityHeader == {<<"s", "e", "v", "e", "r", "i", "t", "y">>, <<"i", "m", "p",
    "a", "c", "t">>, <<"l", "e", "v", "e", "l">>}
DescriptionHeader ==
    {<<"d", "e", "s", "c", "r", "i", "p", "t", "i", "o", "n">>, <<"d", "e", "t",
        "a", "i", "l", "s">>, <<"w", "h", "y", " ", "i", "t", " ", "m", "a",
        "t", "t", "e", "r", "s">>, <<"e", "x", "p", "l", "a", "n", "a", "t",
        "i", "o", "n">>}
TitleLikeHeader ==
    {<<"t", "i", "t", "l", "e">>, <<"i", "s", "s", "u", "e">>, <<"p", "r", "o",
        "b", "l", "e", "m">>, <<"s", "u", "m", "m", "a", "r", "y">>, <<"r", "u",
        "l", "e">>, <<"c", "h", "e", "c", "k">>}
OccurrencesHeader ==
    {<<"o", "c", "c", "u", "r", "r", "e", "n", "c", "e", "s">>, <<"o", "c", "c",
        "u", "r", "r", "e", "n", "c", "e">>, <<"i", "n", "s", "t", "a", "n",
        "c", "e", "s">>, <<"i", "n", "s", "t", "a", "n", "c", "e">>, <<"c", "o",
        "u", "n", "t">>,
     <<"v", "i", "o", "l", "a", "t", "i", "o", "n", "s">>, <<"i", "t", "e", "m", "s">>}
TitleHeader == {<<"t", "i", "t", "l", "e">>, <<"i", "s", "s", "u", "e">>, <<"p",
    "r", "o", "b", "l", "e", "m">>, <<"s", "u", "m", "m", "a", "r",
    "y">>, <<"r", "u", "l", "e">>}
WcagHeader == {<<"w", "c", "a", "g">>, <<"s", "u", "c", "c", "e", "s", "s", " ",
    "c", "r", "i", "t", "e", "r", "i", "o", "n">>, <<"s", "c">>}
RuleHeader == {<<"r", "u", "l", "e", " ", "i", "d">>, <<"r", "u", "l", "e", "i",
    "d">>, <<"r", "u", "l", "e">>, <<"c", "h", "e", "c", "k">>, <<"c", "o", "d",
    "e">>}
PageHeader == {<<"p", "a", "g", "e">>, <<"u", "r", "l">>, <<"s", "c", "r", "e",
    "e", "n">>, <<"r", "o", "u", "t", "e">>}

\* [...set].some((h) => regex.test(h))
SomeHeader(headerKeys, words) ==
    \E k \in 1..Len(headerKeys) : ContainsAny(headerKeys[k], words)

headerLooksLikeIssuesTable(headerKeys) ==
    /\ SomeHeader(headerKeys, SeverityHeader)
    /\ \/ SomeHeader(headerKeys, DescriptionHeader)
       \/ SomeHeader(headerKeys, TitleLikeHeader)

\* headerKeys.findIndex((h) => regex.test(h)); 0 stands for undefined
colIndex(headerKeys, words) ==
    With({k \in 1..Len(headerKeys) : ContainsAny(headerKeys[k], words)}, LAMBDA at :
        IF at = {} THEN 0 ELSE Least(at))

getCellText(cell) == normalizeText(cell)

\* the closure get of parseTableIssues, on the cell texts of one row
GetCell(cells, idx) ==
    IF idx = 0 \/ idx > Len(cells) THEN <<>> ELSE normalizeText(cells[idx])

\* get(idx) for the column whose header matches a pattern
CellUnder(cells, headerKeys, words) == GetCell(cells, colIndex(headerKeys, words))

\* the bug of a title and a description that do not stand in for each other
RowIssuesWithoutFallback(cells, headerKeys, at, sourceFile) ==
    With(CellUnder(cells, headerKeys, SeverityHeader), LAMBDA severityRaw :
        With(CellUnder(cells, headerKeys, TitleHeader), LAMBDA titled :
            With(CellUnder(cells, headerKeys, DescriptionHeader), LAMBDA described :
                IF severityRaw = <<>> /\ described = <<>> THEN <<>>
                ELSE <<[title |-> OrElse(titled, IssueTitle),
                        description |-> described,
                        severity |-> normalizeSeverity(severityRaw),
                        severityOriginal |-> severityRaw,
                        occurrences |->
                            parseOccurrences(CellUnder(cells, headerKeys,
                                                       OccurrencesHeader)),
                        wcag |-> CellUnder(cells, headerKeys, WcagHeader),
                        ruleId |-> CellUnder(cells, headerKeys, RuleHeader),
                        page |-> CellUnder(cells, headerKeys, PageHeader),
                        exampleSnippet |-> Absent,
                        sourceFile |-> sourceFile,
                        origin |-> [kind |-> "table row", at |-> at]]>>)))

(* The issue of a data row, none when the row has neither a severity nor a  *)
(* description.  origin is not a field of the code's record: it records     *)
(* which extractor made the issue, and from which element.                  *)
RowIssues(cells, headerKeys, at, sourceFile) ==
    With(CellUnder(cells, headerKeys, SeverityHeader), LAMBDA severityRaw :
        With(CellUnder(cells, headerKeys, TitleHeader), LAMBDA titled :
            With(CellUnder(cells, headerKeys, DescriptionHeader), LAMBDA described :
                IF severityRaw = <<>> /\ OrElse(described, titled) = <<>> THEN <<>>
                ELSE <<[title |-> OrElse(titled, OrElse(described, IssueTitle)),
                        description |-> OrElse(described, titled),
                        severity |-> normalizeSeverity(severityRaw),
                        severityOriginal |-> severityRaw,
                        occurrences |->
                            parseOccurrences(CellUnder(cells, headerKeys,
                                                       OccurrencesHeader)),
                        wcag |-> CellUnder(cells, headerKeys, WcagHeader),
                        ruleId |-> CellUnder(cells, headerKeys, RuleHeader),
                        page |-> CellUnder(cells, headerKeys, PageHeader),
                        exampleSnippet |-> Absent,
                        sourceFile |-> sourceFile,
                        origin |-> [kind |-> "table row", at |-> at]]>>)))

RECURSIVE TableRowsFrom(_, _, _, _, _)
\* for (const r of dataRows)
TableRowsFrom(table, headerKeys, r, at, sourceFile) ==
    IF r > Len(table.dataRows) THEN <<>>
    ELSE RowIssues([k \in 1..Len(table.dataRows[r]) |->
                       getCellText(table.dataRows[r][k])],
                   headerKeys, at, sourceFile)
             \o TableRowsFrom(table, headerKeys, r + 1, at, sourceFile)

(* parseTableIssues.  A table is the texts of the cells of its header row   *)
(* (none when the table has no row) and, for each other row that has cells, *)
(* the texts of its cells.                                                  *)
TableIssues(table, at, sourceFile) ==
    With([k \in 1..Len(table.headerCells) |->
             toHeaderKey(getCellText(table.headerCells[k]))],
         LAMBDA headerKeys :
             IF ~headerLooksLikeIssuesTable(headerKeys) THEN <<>>
             ELSE TableRowsFrom(table, headerKeys, 1, at, sourceFile))

\* computed once for the tables of the pool
TableIssuesOfPool ==
    [table \in TablePool, at \in 1..MaxTables |-> TableIssues(table, at, SourceFile)]

parseTableIssues(table, at, sourceFile) ==
    IF table \in TablePool /\ at \in 1..MaxTables /\ sourceFile = SourceFile
    THEN TableIssuesOfPool[table, at]
    ELSE TableIssues(table, at, sourceFile)

---------------------------------------------------------------------------
(* The category-card extractor *)

\* /^violation\b/i
StartsWithViolation(aria) ==
    HasAt(toLowerCase(aria), 1, <<"v", "i", "o", "l", "a", "t", "i", "o", "n">>) /\ Boundary(aria, 10)

\* /^potential\s+violation\b/i
StartsWithPotentialViolation(aria) ==
    With(toLowerCase(aria), LAMBDA low :
        /\ HasAt(low, 1, <<"p", "o", "t", "e", "n", "t", "i", "a", "l">>)
        /\ SpaceRun(low, 10) > 0
        /\ HasAt(low, SkipSpaces(low, 10), <<"v", "i", "o", "l", "a", "t", "i", "o", "n">>)
        /\ Boundary(low, SkipSpaces(low, 10) + 9))

\* /\)\s*$/ matches from position c on
ClosesAt(s, c) == At(s, c) = ")" /\ SkipSpaces(s, c + 1) = Len(s) + 1

\* /\((\d+)\s+instances?\)\s*$/i matches from position a on
InstancesGroupAt(s, a) ==
    With(SkipDigits(s, a + 1), LAMBDA b :
        With(SkipSpaces(s, b), LAMBDA w :
            With(toLowerCase(s), LAMBDA low :
                /\ At(s, a) = "("
                /\ b > a + 1
                /\ w > b
                /\ HasAt(low, w, <<"i", "n", "s", "t", "a", "n", "c", "e">>)
                /\ \/ At(low, w + 8) = "s" /\ ClosesAt(s, w + 9)
                   \/ ClosesAt(s, w + 8))))

\* /\s*\((\d+)\s+instances?\)\s*$/i matches from position e on
InstancesSuffixAt(s, e) == InstancesGroupAt(s, e + SpaceRun(s, e))

\* the position behind /^(Potential\s+)?Violation/i in a label that begins
\* with it (low: the label in lower case)
PrefixEnd(low) ==
    IF /\ HasAt(low, 1, <<"p", "o", "t", "e", "n", "t", "i", "a", "l">>)
       /\ SpaceRun(low, 10) > 0
       /\ HasAt(low, SkipSpaces(low, 10), <<"v", "i", "o", "l", "a", "t", "i", "o", "n">>)
    THEN SkipSpaces(low, 10) + 9
    ELSE 10

\* the text of (\d+) in an instances suffix that starts at position e
SuffixDigits(aria, e) ==
    With(SkipSpaces(aria, e), LAMBDA a :
        SubSeq(aria, a + 1, SkipDigits(aria, a + 1) - 1))

(* aria.match(/^(Potential\s+)?Violation\.?\s*(.*?)(?:\s*\((\d+)\s+instances?\))?\s*$/i) *)
(* on a label that begins with the prefix: the message (.*?) is lazy and    *)
(* ends at the first position from which the rest of the pattern matches,   *)
(* which is the start of an instances suffix that closes the label or else  *)
(* the end of the label.  digits is the text of (\d+), empty when the       *)
(* group took no part in the match.                                         *)
MatchAria(aria) ==
    With(PrefixEnd(toLowerCase(aria)), LAMBDA v :
        With(SkipSpaces(aria, IF At(aria, v) = "." THEN v + 1 ELSE v), LAMBDA m0 :
            With({e \in m0..Len(aria) : InstancesSuffixAt(aria, e)}, LAMBDA ends :
                IF ends = {}
                THEN [message |-> SubSeq(aria, m0, Len(aria)), digits |-> <<>>]
                ELSE [message |-> SubSeq(aria, m0, Least(ends) - 1),
                      digits |-> SuffixDigits(aria, Least(ends))])))

EnDash == "\\u2013"
Dashes == {"-", EnDash}

\* /\s*[–-]\s*\(\d+\s+instances?\)\s*$/i matches from position i on
DashedInstancesAt(s, i) ==
    With(SkipSpaces(s, i), LAMBDA d :
        At(s, d) \in Dashes /\ InstancesGroupAt(s, SkipSpaces(s, d + 1)))

\* description.replace(/\s*[–-]\s*\(\d+\s+instances?\)\s*$/i, "")
StripDashedInstances(s) == CutAt(s, {i \in 1..Len(s) : DashedInstancesAt(s, i)})

RECURSIVE NumberText(_)
\* `${n}` of a number n >= 0
NumberText(n) ==
    IF n < 10 THEN <<DigitSeq[n + 1]>>
    ELSE Append(NumberText(n \div 10), DigitSeq[(n % 10) + 1])

TitleMax == 90

\* description.length > 90 ? `${description.slice(0, 87)}…` : description
CardTitle(description) ==
    IF Len(description) > TitleMax
    THEN Append(SubSeq(description, 1, TitleMax - 3), Ellipsis)
    ELSE description

\* `${description} (Additional ${remainder} instance(s) not included in the HTML export)`
RemainderDescription(description, remainder) ==
    description \o <<" ", "(", "A", "d", "d", "i", "t", "i", "o", "n", "a", "l",
        " ">> \o NumberText(remainder)
        \o <<" ", "i", "n", "s", "t", "a", "n", "c", "e", "(", "s", ")", " ",
            "n", "o", "t", " ", "i", "n", "c", "l", "u", "d", "e", "d", " ",
            "i", "n", " ", "t", "h", "e", " ", "H", "T", "M", "L", " ", "e",
            "x", "p", "o", "r", "t", ")">>

\* the occurrences of a card: the count of the label when it is a positive
\* number, else parseOccurrences of the description
CardOccurrences(digits, description) ==
    With(IF digits = <<>> THEN NoNumber ELSE ParseDigits(digits, 1, Len(digits), 0),
         LAMBDA fromAriaOccurrences :
             IF fromAriaOccurrences # NoNumber /\ fromAriaOccurrences > 0
             THEN fromAriaOccurrences
             ELSE parseOccurrences(description))

\* the bug of a remainder that forgets the instances that were found
RemainderIgnoringKnown(occurrences, known) == occurrences

\* the remainder of a card: Math.max(0, occurrences - known)
CardRemainder(occurrences, known) ==
    IF occurrences - known > 0 THEN occurrences - known ELSE 0

\* the description of a card: the visible title when there is one, else the
\* message of the label, without a dashed instances suffix
CardDescription(el, match) ==
    StripDashedInstances(OrElse(normalizeText(el.visibleTitle),
                                normalizeText(match.message)))

\* the snippets of the instance list that look like image markup
InstanceSnippets(el) ==
    SelectSeq([k \in 1..Len(el.codeTexts) |-> clampSnippet(el.codeTexts[k])],
              LAMBDA s : s # <<>> /\ isUsefulAltExampleSnippet(s))

(* What the loop of parseCategoriesCardIssues reads from one element that   *)
(* carries an aria-label.  An element is a record of its label, the text    *)
(* of its .col-[title] descendant (Absent when it has none), the texts of   *)
(* the code elements of its instance list and its ancestor chain.  skipped  *)
(* holds when the loop goes on to the next element (continue).              *)
CardRead(el) ==
    With(normalizeText(el.aria), LAMBDA aria :
        With(MatchAria(aria), LAMBDA match :
            With(CardDescription(el, match), LAMBDA description :
                With(StartsWithPotentialViolation(aria), LAMBDA isPotential :
                    IF \/ aria = <<>>
                       \/ ~(StartsWithViolation(aria) \/ isPotential)
                       \/ description = <<>>
                    THEN [skipped |-> TRUE]
                    ELSE [skipped |-> FALSE,
                          isPotential |-> isPotential,
                          description |-> description,
                          occurrences |-> CardOccurrences(match.digits, description),
                          title |-> CardTitle(description),
                          wcag |-> extractBestWcagLabelFromAncestors(el.chain),
                          wantsInstances |-> isAltTextRelated(description),
                          instanceSnippets |-> InstanceSnippets(el)]))))

\* computed once for the elements of the pool
CardReadOfPool == [el \in ElementPool |-> CardRead(el)]

CardOf(el) == IF el \in ElementPool THEN CardReadOfPool[el] ELSE CardRead(el)

\* the bug of a confirmed violation that is given the level below Critical
CardBaseConfirmedSerious(card, at, sourceFile, pageUrl) ==
    [title |-> card.title,
     description |-> card.description,
     severity |-> IF card.isPotential THEN "Moderate" ELSE "Serious",
     severityOriginal |-> Absent,
     occurrences |-> card.occurrences,
     wcag |-> card.wcag,
     ruleId |-> Absent,
     page |-> pageUrl,
     exampleSnippet |-> Absent,
     sourceFile |-> sourceFile,
     origin |-> [kind |-> "card", at |-> at]]

\* the issue of a card that is not alt-text related
CardBase(card, at, sourceFile, pageUrl) ==
    [title |-> card.title,
     description |-> card.description,
     severity |-> IF card.isPotential THEN "Moderate" ELSE "Critical",
     severityOriginal |-> Absent,
     occurrences |-> card.occurrences,
     wcag |-> card.wcag,
     ruleId |-> Absent,
     page |-> pageUrl,
     exampleSnippet |-> Absent,
     sourceFile |-> sourceFile,
     origin |-> [kind |-> "card", at |-> at]]

\* for (const snip of instanceSnippets) issues.push(...)
InstanceIssues(card, base, at) ==
    [k \in 1..Len(card.instanceSnippets) |->
        [base EXCEPT !.occurrences = 1,
                     !.exampleSnippet = card.instanceSnippets[k],
                     !.origin = [kind |-> "instance", at |-> at]]]

\* if (remainder > 0) issues.push(...)
RemainderIssues(card, base, at, remainder) ==
    IF remainder > 0
    THEN <<[base EXCEPT
               !.description = RemainderDescription(card.description, remainder),
               !.occurrences = remainder,
               !.origin = [kind |-> "remainder", at |-> at]]>>
    ELSE <<>>

(* The issues of one element (what the body of the loop pushes).  origin is *)
(* not a field of the code's record: it records which extractor made the    *)
(* issue, and from which element.                                           *)
CardIssues(el, at, sourceFile, pageUrl) ==
    With(CardOf(el), LAMBDA card :
        IF card.skipped THEN <<>>
        ELSE With(CardBase(card, at, sourceFile, pageUrl), LAMBDA base :
                 IF card.wantsInstances
                 THEN InstanceIssues(card, base, at)
                          \o RemainderIssues(card, base, at,
                                 CardRemainder(card.occurrences,
                                               Len(card.instanceSnippets)))
                 ELSE <<base>>))

RECURSIVE CardsFrom(_, _, _, _)
CardsFrom(elements, at, sourceFile, pageUrl) ==
    IF at > Len(elements) THEN <<>>
    ELSE CardIssues(elements[at], at, sourceFile, pageUrl)
             \o CardsFrom(elements, at + 1, sourceFile, pageUrl)

\* elements: the elements of the document that carry an aria-label, in
\* document order
parseCategoriesCardIssues(elements, sourceFile, pageUrl) ==
    CardsFrom(elements, 1, sourceFile, pageUrl)

---------------------------------------------------------------------------
(* The heuristic extractor *)

SeverityWords == {<<"s", "e", "v", "e", "r", "i", "t", "y">>, <<"i", "m", "p",
    "a", "c", "t">>}
HeuristicLevels ==
    {<<"c", "r", "i", "t", "i", "c", "a", "l">>, <<"s", "e", "r", "i", "o", "u",
        "s">>, <<"h", "i", "g", "h">>, <<"m", "o", "d", "e", "r", "a", "t",
        "e">>, <<"m", "e", "d", "i", "u", "m">>, <<"m", "i", "n", "o",
        "r">>, <<"l", "o", "w">>}

\* the position behind /(?:severity|impact)\s*[:\-]?\s*/ from position i on,
\* 0 when it does not match there
LevelStart(text, low, i) ==
    With({w \in SeverityWords : HasAt(low, i, w)}, LAMBDA heads :
        IF heads = {} THEN 0
        ELSE With(SkipSpaces(text, i + Len(CHOOSE w \in heads : TRUE)), LAMBDA a :
                 SkipSpaces(text, IF At(text, a) \in {":", "-"} THEN a + 1 ELSE a)))

\* /(?:severity|impact)\s*[:\-]?\s*(critical|serious|high|moderate|medium|minor|low)/i
\* matches at position i: the position and the length of the captured word,
\* <<0, 0>> when it does not match
SeverityMatchAt(text, low, i) ==
    With(LevelStart(text, low, i), LAMBDA c :
        With({l \in HeuristicLevels : HasAt(low, c, l)}, LAMBDA levels :
            IF c = 0 \/ levels = {} THEN <<0, 0>>
            ELSE <<c, Len(CHOOSE l \in levels : TRUE)>>))

DescriptionMax == 400

\* what a candidate with a severity gives, m being the first match in its text
CandidateFields(el, text, m) ==
    [skipped |-> FALSE,
     title |-> OrElse(normalizeText(el.heading), IssueTitle),
     description |-> SubSeq(text, 1, IF Len(text) < DescriptionMax
                                     THEN Len(text) ELSE DescriptionMax),
     sevMatch |-> SubSeq(text, m[1], m[1] + m[2] - 1)]

(* What the first loop of parseHeuristicIssues reads from one candidate     *)
(* element.  A candidate is a record of its text and of the text of its     *)
(* first heading (Absent when it has none).  skipped holds when the loop    *)
(* goes on to the next element (continue).                                  *)
CandidateRead(el) ==
    With(normalizeText(el.text), LAMBDA text :
        With(toLowerCase(text), LAMBDA low :
            With({i \in 1..Len(text) : SeverityMatchAt(text, low, i)[1] > 0},
                 LAMBDA hits :
                     IF text = <<>> \/ ~ContainsAny(low, SeverityWords) \/ hits = {}
                     THEN [skipped |-> TRUE]
                     ELSE CandidateFields(el, text,
                              SeverityMatchAt(text, low, Least(hits))))))

\* computed once for the candidates of the pool
CandidateReadOfPool == [el \in CandidatePool |-> CandidateRead(el)]

CandidateOf(el) ==
    IF el \in CandidatePool THEN CandidateReadOfPool[el] ELSE CandidateRead(el)

\* the issue of one candidate element, or none
HeuristicIssue(el, at, sourceFile) ==
    With(CandidateOf(el), LAMBDA found :
        IF found.skipped THEN <<>>
        ELSE <<[title |-> found.title,
                description |-> found.description,
                severity |-> normalizeSeverity(found.sevMatch),
                severityOriginal |-> found.sevMatch,
                occurrences |-> 1,
                wcag |-> Absent,
                ruleId |-> Absent,
                page |-> Absent,
                exampleSnippet |-> Absent,
                sourceFile |-> sourceFile,
                origin |-> [kind |-> "heuristic", at |-> at]]>>)

RECURSIVE HeuristicFrom(_, _, _)
HeuristicFrom(candidates, at, sourceFile) ==
    IF at > Len(candidates) THEN <<>>
    ELSE HeuristicIssue(candidates[at], at, sourceFile)
             \o HeuristicFrom(candidates, at + 1, sourceFile)

RECURSIVE DropSeen(_, _, _)
\* issues.filter: an issue whose severity, title and description were seen
\* before is dropped
DropSeen(issues, i, kept) ==
    IF i > Len(issues) THEN kept
    ELSE DropSeen(issues, i + 1,
             IF \E k \in 1..Len(kept) :
                   /\ kept[k].severity = issues[i].severity
                   /\ kept[k].title = issues[i].title
                   /\ kept[k].description = issues[i].description
             THEN kept ELSE Append(kept, issues[i]))

\* candidates: the section, article, li and div elements of the document, in
\* document order
parseHeuristicIssues(candidates, sourceFile) ==
    DropSeen(HeuristicFrom(candidates, 1, sourceFile), 1, <<>>)

---------------------------------------------------------------------------
(* The page URL *)

\* /^https?:\/\//i matches at position i: the length of the match, else 0
SchemeAt(t, i) ==
    With(toLowerCase(t), LAMBDA low :
        IF HasAt(low, i, <<"h", "t", "t", "p", ":", "/", "/">>) THEN 7
        ELSE IF HasAt(low, i, <<"h", "t", "t", "p", "s", ":", "/", "/">>) THEN 8
        ELSE 0)

UrlMax == 300
UrlEnders == Whitespace \cup {")", "]", "\"", "'"}

RECURSIVE UrlRun(_, _)
\* the longest run of [^\s)\]"'] from position i on
UrlRun(t, i) ==
    IF i <= Len(t) /\ t[i] \notin UrlEnders THEN 1 + UrlRun(t, i + 1) ELSE 0

\* the position behind the URL that starts at position i, i when none does
UrlEnd(t, i) ==
    With(SchemeAt(t, i), LAMBDA scheme :
        IF scheme > 0 /\ UrlRun(t, i + scheme) > 0
        THEN i + scheme + UrlRun(t, i + scheme)
        ELSE i)

\* bodyText.match(/https?:\/\/[^\s)\]"']+/i)?.[0]
FirstUrl(t) ==
    With({i \in 1..Len(t) : UrlEnd(t, i) > i}, LAMBDA at :
        IF at = {} THEN Absent
        ELSE SubSeq(t, Least(at), UrlEnd(t, Least(at)) - 1))

\* /^https?:\/\//i.test(t) && t.length < 300
IsPageUrl(t) == SchemeAt(t, 1) > 0 /\ Len(t) < UrlMax

\* pTexts: the texts of the p elements in document order; bodyText: the text
\* of the body
PrimaryPageUrl(pTexts, bodyText) ==
    With({k \in 1..Len(pTexts) : IsPageUrl(normalizeText(pTexts[k]))}, LAMBDA urls :
        IF urls # {} THEN normalizeText(pTexts[Least(urls)])
        ELSE FirstUrl(normalizeText(bodyText)))

\* computed once for the pages of the pool
PageUrlOfPool == [p \in PageViews |-> PrimaryPageUrl(p.pTexts, p.bodyText)]

extractPrimaryPageUrl(pTexts, bodyText) ==
    IF [pTexts |-> pTexts, bodyText |-> bodyText] \in PageViews
    THEN PageUrlOfPool[[pTexts |-> pTexts, bodyText |-> bodyText]]
    ELSE PrimaryPageUrl(pTexts, bodyText)

---------------------------------------------------------------------------
(* The severity scheme of a document *)

\* /\b(w1|w2|...)\b/.test(l)
HasWord(l, words) ==
    \E w \in words : \E i \in 1..Len(l) :
        HasAt(l, i, w) /\ Boundary(l, i) /\ Boundary(l, i + Len(w))

HmlWords == {<<"h", "i", "g", "h">>, <<"m", "e", "d", "i", "u", "m">>, <<"l", "o", "w">>}
AxeWords == {<<"s", "e", "r", "i", "o", "u", "s">>, <<"m", "o", "d", "e", "r",
    "a", "t", "e">>, <<"m", "i", "n", "o", "r">>}

\* norm.some((l) => /\b(w1|w2|...)\b/.test(l))
SomeLabel(norm, words) == \E k \in 1..Len(norm) : HasWord(norm[k], words)

\* the bug of preferring High/Medium/Low whenever a label names one of them
inferSchemePreferringHml(labels) ==
    With(NonEmpty([k \in 1..Len(labels) |-> toLowerCase(normalizeText(labels[k]))]),
         LAMBDA norm :
             IF SomeLabel(norm, HmlWords) THEN "hml"
             ELSE IF SomeLabel(norm, AxeWords) THEN "axe"
             ELSE IF SomeLabel(norm, {<<"c", "r", "i", "t", "i", "c", "a", "l">>}) THEN "axe"
             ELSE "unknown")

inferSeveritySchemeFromRawLabels(labels) ==
    With(NonEmpty([k \in 1..Len(labels) |-> toLowerCase(normalizeText(labels[k]))]),
         LAMBDA norm :
             IF SomeLabel(norm, HmlWords) /\ ~SomeLabel(norm, AxeWords) THEN "hml"
             ELSE IF SomeLabel(norm, AxeWords) THEN "axe"
             ELSE IF SomeLabel(norm, {<<"c", "r", "i", "t", "i", "c", "a", "l">>}) THEN "axe"
             ELSE "unknown")

---------------------------------------------------------------------------
(* Gap-filling from the WCAG breakdown *)

\* covered.get(wcag) ?? { failures: 0, potentials: 0 }
CoveredGet(covered, wcag) ==
    With({k \in 1..Len(covered) : covered[k].key = wcag}, LAMBDA hit :
        IF hit = {} THEN [key |-> wcag, failures |-> 0, potentials |-> 0]
        ELSE covered[Least(hit)])

\* covered.set(entry.key, entry)
CoveredSet(covered, entry) ==
    With({k \in 1..Len(covered) : covered[k].key = entry.key}, LAMBDA hit :
        IF hit = {} THEN Append(covered, entry)
        ELSE [covered EXCEPT ![Least(hit)] = entry])

\* the occurrences of an issue added to the count of its severity
CoveredAdd(existing, issue) ==
    IF issue.severity = "Critical"
    THEN [existing EXCEPT !.failures = @ + issue.occurrences]
    ELSE IF issue.severity = "Moderate"
    THEN [existing EXCEPT !.potentials = @ + issue.occurrences]
    ELSE existing

\* the body of the loop, for an issue whose normalised criterion label is key
CoveredInto(covered, issue, key) ==
    IF key = <<>> THEN covered
    ELSE CoveredSet(covered, CoveredAdd(CoveredGet(covered, key), issue))

RECURSIVE CoveredFrom(_, _, _)
(* The Map covered as the list of its entries: for each criterion label of  *)
(* the card issues, the occurrences of its Critical and of its Moderate     *)
(* issues.                                                                  *)
CoveredFrom(categoryIssues, i, covered) ==
    IF i > Len(categoryIssues) THEN covered
    ELSE CoveredFrom(categoryIssues, i + 1,
             CoveredInto(covered, categoryIssues[i],
                         normalizeText(categoryIssues[i].wcag)))

\* Math.max(0, total - found)
MissingCount(total, found) == IF total - found > 0 THEN total - found ELSE 0

GapFillDescription ==
    <<"C", "o", "u", "n", "t", " ", "t", "a", "k", "e", "n", " ", "f", "r", "o",
        "m", " ", "t", "h", "e", " ", "W", "C", "A", "G", " ", "b", "r", "e",
        "a", "k", "d", "o", "w", "n", " ", "i", "n", " ", "t", "h", "e", " ",
        "S", "t", "a", "r", "k", " ", "r", "e", "p", "o", "r", "t", ".", " ",
        "D", "e", "t", "a", "i", "l", "e", "d", " ", "i", "s", "s", "u", "e",
        " ", "c", "a", "r", "d", "s", " ", "w", "e", "r", "e", " ", "n", "o",
        "t", " ", "p", "r", "e", "s", "e", "n", "t", " ", "i", "n", " ", "t",
        "h", "e", " ", "H", "T", "M", "L", " ", "e", "x", "p", "o", "r", "t",
        " ", "(", "o", "f", "t", "e", "n", " ", "b", "e", "c", "a", "u", "s",
        "e", " ", "t", "h", "e", " ", "s", "e", "c", "t", "i", "o", "n", " ",
        "w", "a", "s", " ", "c", "o", "l", "l", "a", "p", "s", "e", "d", ")",
        ".">>

EmDash == "\\u2014"

\* `WCAG ${c.wcag} — Violations (details not in export)`
ViolationsTitle(wcag) ==
    <<"W", "C", "A", "G", " ">> \o wcag \o <<" ", EmDash>> \o <<" ", "V", "i",
        "o", "l", "a", "t", "i", "o", "n", "s", " ", "(", "d", "e", "t", "a",
        "i", "l", "s", " ", "n", "o", "t", " ", "i", "n", " ", "e", "x", "p",
        "o", "r", "t", ")">>

\* `WCAG ${c.wcag} — Potential violations (details not in export)`
PotentialsTitle(wcag) ==
    <<"W", "C", "A", "G", " ">> \o wcag \o <<" ", EmDash>>
        \o <<" ", "P", "o", "t", "e", "n", "t", "i", "a", "l", " ", "v", "i",
            "o", "l", "a", "t", "i", "o", "n", "s", " ", "(", "d", "e", "t",
            "a", "i", "l", "s", " ", "n", "o", "t", " ", "i", "n", " ", "e",
            "x", "p", "o", "r", "t", ")">>

SynthIssue(title, severity, occurrences, wcag, at, sourceFile, pageUrl) ==
    [title |-> title,
     description |-> GapFillDescription,
     severity |-> severity,
     severityOriginal |-> Absent,
     occurrences |-> occurrences,
     wcag |-> wcag,
     ruleId |-> Absent,
     page |-> pageUrl,
     exampleSnippet |-> Absent,
     sourceFile |-> sourceFile,
     origin |-> [kind |-> "gap-fill", at |-> at]]

\* the synthetic issues of one criterion c of the breakdown, existing being
\* what the cards cover of it
SynthFor(c, existing, at, sourceFile, pageUrl) ==
    (IF MissingCount(c.failures, existing.failures) > 0
     THEN <<SynthIssue(ViolationsTitle(c.wcag), "Critical",
                       MissingCount(c.failures, existing.failures),
                       c.wcag, at, sourceFile, pageUrl)>>
     ELSE <<>>)
    \o (IF MissingCount(c.potentials, existing.potentials) > 0
        THEN <<SynthIssue(PotentialsTitle(c.wcag), "Moderate",
                          MissingCount(c.potentials, existing.potentials),
                          c.wcag, at, sourceFile, pageUrl)>>
        ELSE <<>>)

RECURSIVE SynthFrom(_, _, _, _, _)
\* for (const c of wcagBreakdown): the synthetic issues, in order
SynthFrom(breakdown, at, covered, sourceFile, pageUrl) ==
    IF at > Len(breakdown) THEN <<>>
    ELSE SynthFor(breakdown[at], CoveredGet(covered, breakdown[at].wcag),
                  at, sourceFile, pageUrl)
             \o SynthFrom(breakdown, at + 1, covered, sourceFile, pageUrl)

SynthIssues(categoryIssues, breakdown, sourceFile, pageUrl) ==
    SynthFrom(breakdown, 1, CoveredFrom(categoryIssues, 1, <<>>), sourceFile, pageUrl)

---------------------------------------------------------------------------
(* consolidateIssues *)

\* the copy of an issue that consolidateIssues stores in its group
StoredIssue(issue) ==
    [issue EXCEPT !.title = OrElse(normalizeText(issue.title), IssueTitle),
                  !.description = normalizeText(issue.description),
                  !.ruleId = normalizeText(issue.ruleId),
                  !.wcag = normalizeText(issue.wcag)]

\* the bug of a key that also holds the severity
KeyWithSeverity(st) ==
    toLowerCase(st.ruleId \o <<"|">> \o st.wcag \o <<"|">> \o st.title
                \o <<"|">> \o st.description) \o <<"|", st.severity>>

\* `${ruleId || ""}|${wcag || ""}|${title}|${description}`.toLowerCase(),
\* of the stored copy st of an issue
KeyOfStored(st) ==
    toLowerCase(st.ruleId \o <<"|">> \o st.wcag \o <<"|">> \o st.title
                \o <<"|">> \o st.description)

GroupKey(issue) == KeyOfStored(StoredIssue(issue))

\* map.get(key).push(st), or map.set(key, [st]) for a key that is new, st
\* being the stored copy of issue i
GroupInto(map, st, i) ==
    With(KeyOfStored(st), LAMBDA key :
        With({g \in 1..Len(map) : map[g].key = key}, LAMBDA hit :
            IF hit # {}
            THEN [map EXCEPT ![Least(hit)].issues = Append(@, st),
                             ![Least(hit)].members = Append(@, i)]
            ELSE Append(map, [key |-> key, issues |-> <<st>>, members |-> <<i>>])))

RECURSIVE GroupFrom(_, _, _)
(* The Map of consolidateIssues as the list of its entries in insertion     *)
(* order.  An entry holds its key and the issues pushed to it, in order;    *)
(* members, the positions of those issues in rawIssues, is not in the code: *)
(* it is kept to state what was merged.                                     *)
GroupFrom(raw, i, map) ==
    IF i > Len(raw) THEN map
    ELSE GroupFrom(raw, i + 1, GroupInto(map, StoredIssue(raw[i]), i))

GroupIssues(raw) == GroupFrom(raw, 1, <<>>)

\* the bug of a count that is dropped when it is no finite number
FiniteOrNothing(n) == IF n # NoNumber THEN n ELSE 0

\* Number.isFinite(n) ? n : 1, NoNumber standing for the numbers that are
\* not finite
FiniteOrOne(n) == IF n # NoNumber THEN n ELSE 1

RECURSIVE SumOccurrences(_, _)
\* issues.reduce((acc, i) => acc + (Number.isFinite(i.occurrences) ?
\* i.occurrences : 1), 0)
SumOccurrences(issues, i) ==
    IF i > Len(issues) THEN 0
    ELSE FiniteOrOne(issues[i].occurrences) + SumOccurrences(issues, i + 1)

\* list.slice(0, n)
FirstUpTo(list, n) == SubSeq(list, 1, IF Len(list) < n THEN Len(list) ELSE n)

\* the ConsolidatedIssue of the issues of a group
MergedOf(issues, members) ==
    [title |-> issues[1].title,
     description |-> issues[1].description,
     severity |-> pickHighestSeverity([k \in 1..Len(issues) |-> issues[k].severity]),
     wcag |-> issues[1].wcag,
     ruleId |-> issues[1].ruleId,
     occurrences |-> SumOccurrences(issues, 1),
     pages |-> Dedup(NonEmpty([k \in 1..Len(issues) |->
                                  normalizeText(issues[k].page)])),
     sourceFiles |-> Dedup([k \in 1..Len(issues) |-> issues[k].sourceFile]),
     exampleSnippets |->
         FirstUpTo(Dedup(NonEmpty([k \in 1..Len(issues) |->
                                      clampSnippet(issues[k].exampleSnippet)])),
                   MaxSnippets),
     members |-> members]

\* one ConsolidatedIssue, built from an entry of the map
MergeGroup(entry) == MergedOf(entry.issues, entry.members)

\* the bug of a comparator that leaves the occurrences out
CompareSeverityOnly(a, b) ==
    SEVERITY_ORDER(b.severity) - SEVERITY_ORDER(a.severity)

\* the comparator of consolidated.sort: negative when a goes before b
CompareConsolidated(a, b) ==
    With(SEVERITY_ORDER(b.severity) - SEVERITY_ORDER(a.severity), LAMBDA sev :
        IF sev # 0 THEN sev ELSE b.occurrences - a.occurrences)

\* x put into the list at position at
PlaceAt(sorted, x, at) ==
    SubSeq(sorted, 1, at - 1) \o <<x>> \o SubSeq(sorted, at, Len(sorted))

\* x put into an ordered list behind everything it does not go before
InsertSorted(sorted, x) ==
    With({j \in 1..Len(sorted) : CompareConsolidated(x, sorted[j]) < 0}, LAMBDA later :
        PlaceAt(sorted, x, IF later = {} THEN Len(sorted) + 1 ELSE Least(later)))

RECURSIVE SortFrom(_, _, _)
\* Array.prototype.sort with the comparator: a stable sort
SortFrom(list, i, sorted) ==
    IF i > Len(list) THEN sorted
    ELSE SortFrom(list, i + 1, InsertSorted(sorted, list[i]))

SortConsolidated(list) == SortFrom(list, 1, <<>>)

RECURSIVE MergeFrom(_, _)
\* for (const { issues } of map.values()) consolidated.push(...)
MergeFrom(map, g) ==
    IF g > Len(map) THEN <<>>
    ELSE <<MergeGroup(map[g])>> \o MergeFrom(map, g + 1)

consolidateIssues(raw) == SortConsolidated(MergeFrom(GroupIssues(raw), 1))

---------------------------------------------------------------------------
(* consolidateIssues on every list of at most MaxIssues parsed issues *)

MaxIssues == 2
MaxOccurrences == 2

\* Texts as the extractors produce them: every text field of a ParsedIssue is
\* a result of normalizeText (getCellText, get, extractPrimaryPageUrl, the
\* card's description).
RawPageTexts ==
    { <<>>,
      <<"u">>,
      <<"u", " ", Passed, " ", Passed, "1", " ", "1">> }

PageTexts == {normalizeText(t) : t \in RawPageTexts}

\* (ruleId, wcag, title, description) of the issues of the pool
KeyPool ==
    { [ruleId |-> Absent, wcag |-> Absent, title |-> <<"a">>, description |-> <<"d">>],
      [ruleId |-> Absent, wcag |-> Absent, title |-> <<"A">>, description |-> <<"d">>],
      [ruleId |-> <<"r">>, wcag |-> Absent, title |-> <<"a">>, description |-> <<"d">>] }

\* where an issue was found: the file and the page of that file
SourcePool ==
    { [sourceFile |-> "f1.html", page |-> normalizeText(<<"u">>),
       exampleSnippet |-> <<"i">>],
      [sourceFile |-> "f2.html",
       page |-> normalizeText(<<"u", " ", Passed, " ", Passed, "1", " ", "1">>),
       exampleSnippet |-> Absent] }

SeverityPool == {"Minor", "Serious", "Critical"}

IssuePool ==
    { [title |-> k.title, description |-> k.description, ruleId |-> k.ruleId,
       wcag |-> k.wcag, severity |-> sev, occurrences |-> occ,
       page |-> src.page, exampleSnippet |-> src.exampleSnippet,
       sourceFile |-> src.sourceFile] :
        k \in KeyPool, sev \in SeverityPool, occ \in 1..MaxOccurrences,
        src \in SourcePool }

ConsInit ==
    /\ cPc = "input"
    /\ rawIssues \in ListsUpTo(IssuePool, MaxIssues)
    /\ consolidated = <<>>
    /\ NormIdle
    /\ ParseIdle
    /\ FunIdle
    /\ BatchIdle

\* const consolidated = consolidateIssues(rawIssues)
Consolidate ==
    /\ cPc = "input"
    /\ consolidated' = consolidateIssues(rawIssues)
    /\ cPc' = "done"
    /\ UNCHANGED <<rawIssues, normVars, parseVars, funVars, batchVars>>

\* the same list with the severity, occurrences, page, source file and snippet
\* of one issue replaced, consolidated in its turn
ConsolidateVariant ==
    /\ cPc = "done"
    /\ \E i \in 1..Len(rawIssues), other \in IssuePool :
          /\ other.title = rawIssues[i].title
          /\ other.description = rawIssues[i].description
          /\ other.ruleId = rawIssues[i].ruleId
          /\ other.wcag = rawIssues[i].wcag
          /\ other # rawIssues[i]
          /\ rawIssues' = [rawIssues EXCEPT ![i] = other]
    /\ consolidated' = consolidateIssues(rawIssues')
    /\ cPc' = "varied"
    /\ UNCHANGED <<normVars, parseVars, funVars, batchVars>>

ConsNext == Consolidate \/ ConsolidateVariant

SpecCons == ConsInit /\ [][ConsNext]_vars

---------------------------------------------------------------------------
(* normalizeText on every text of at most MaxTextLen characters *)

MaxTextLen == 6
NormAlphabet == {Passed, "1", " ", "x"}

RECURSIVE TextsUpTo(_)
TextsUpTo(n) ==
    IF n = 0 THEN {<<>>}
    ELSE LET prev == TextsUpTo(n - 1)
         IN  prev \cup {Append(t, c) : t \in {u \in prev : Len(u) = n - 1},
                                       c \in NormAlphabet}

NormInit ==
    /\ nPc = "raw"
    /\ nIn \in TextsUpTo(MaxTextLen)
    /\ nOut = <<>>
    /\ ConsIdle
    /\ ParseIdle
    /\ FunIdle
    /\ BatchIdle

\* t = normalizeText(s)
NormalizeOnce ==
    /\ nPc = "raw"
    /\ nOut' = normalizeText(nIn)
    /\ nPc' = "once"
    /\ UNCHANGED <<nIn, consVars, parseVars, funVars, batchVars>>

\* normalizeText(t): the result of the first call is normalised again
NormalizeAgain ==
    /\ nPc = "once"
    /\ nIn' = nOut
    /\ nOut' = normalizeText(nOut)
    /\ nPc' = "twice"
    /\ UNCHANGED <<consVars, parseVars, funVars, batchVars>>

NormNext == NormalizeOnce \/ NormalizeAgain

SpecNorm == NormInit /\ [][NormNext]_vars

---------------------------------------------------------------------------
(* parseStarkHtmlReport, step by step *)

Warning(text, value) == [text |-> text, value |-> value]

\* the debug record as parseStarkHtmlReport creates it; an optional field is
\* a list that is empty until the field is set.  reportTotals, which nothing
\* but the debug record holds, and the row count of tableHeaders are left out.
NewDebug ==
    [tablesFound |-> 0,
     tableHeaders |-> <<>>,
     matchedTables |-> 0,
     issuesExtracted |-> 0,
     wcagBreakdownTotals |-> <<>>,
     severityScheme |-> <<>>,
     severityLabelsFound |-> <<>>,
     warnings |-> <<>>]

\* the bug of a parse failure that reaches the caller
RethrowParseFailure(d) == [issues |-> <<>>, debug |-> d, thrown |-> TRUE]

\* catch { debug.warnings.push(...); return { issues: [], debug }; }
OnParseFailure(d) ==
    [issues |-> <<>>,
     debug |-> [d EXCEPT !.warnings =
                   Append(@, Warning("DOMParser failed to parse HTML.", <<>>))],
     thrown |-> FALSE]

RECURSIVE SumField(_, _, _)
\* wcagBreakdown.reduce((acc, c) => acc + c[field], 0)
SumField(list, field, i) ==
    IF i > Len(list) THEN 0 ELSE list[i][field] + SumField(list, field, i + 1)

\* the catch block has run: its result is returned
ParseFailed(r) ==
    /\ pIssues' = r.issues
    /\ pDebug' = r.debug
    /\ pThrown' = r.thrown
    /\ pPc' = "returned"
    /\ UNCHANGED <<pBreakdown, pPageUrl>>

\* the breakdown and the page URL of the document are kept
DocumentRead(breakdown, url) ==
    /\ pBreakdown' = breakdown
    /\ pPageUrl' = url
    /\ pDebug' = [pDebug EXCEPT
                    !.wcagBreakdownTotals =
                        IF Len(breakdown) > 0
                        THEN <<[criteriaWithCounts |-> Len(breakdown),
                                failures |-> SumField(breakdown, "failures", 1),
                                potentials |-> SumField(breakdown, "potentials", 1)]>>
                        ELSE <<>>,
                    !.warnings = IF url # <<>>
                                 THEN Append(@, Warning("Detected page URL: ", url))
                                 ELSE @]
    /\ pPc' = "tables"
    /\ UNCHANGED <<pIssues, pThrown>>

\* lines 641-677: the document is parsed and its breakdown and page URL read
ParseDocument ==
    /\ pPc = "start"
    /\ IF ~pDoc.parses
       THEN ParseFailed(OnParseFailure(pDebug))
       ELSE DocumentRead(extractWcagBreakdownTotals(pDoc.badges),
                         extractPrimaryPageUrl(pDoc.pTexts, pDoc.bodyText))
    /\ UNCHANGED <<pDoc, pCardIssues, pSynth, pRan, normVars, consVars, funVars, batchVars>>

\* the bug of counting every table as matched
TablesCountingEach(tableIssues, rest) ==
    [issues |-> tableIssues \o rest.issues, matched |-> rest.matched + 1]

\* the issues of a table put before those of the tables behind it
TablesWith(tableIssues, rest) ==
    [issues |-> tableIssues \o rest.issues,
     matched |-> rest.matched + (IF Len(tableIssues) > 0 THEN 1 ELSE 0)]

RECURSIVE TablesFrom(_, _, _)
\* tables.forEach: the issues of each table, with the number of the tables
\* that gave some
TablesFrom(tables, at, sourceFile) ==
    IF at > Len(tables) THEN [issues |-> <<>>, matched |-> 0]
    ELSE TablesWith(parseTableIssues(tables[at], at, sourceFile),
                    TablesFrom(tables, at + 1, sourceFile))

\* the bug of going on to the cards whatever the tables gave
AlwaysFallThrough(found) == TRUE

\* if (issues.length === 0)
NoIssuesYet(found) == Len(found) = 0

\* what the tables gave is kept, and the call goes on by it
TablesDone(r) ==
    /\ pIssues' = r.issues
    /\ pDebug' = [pDebug EXCEPT
                    !.tablesFound = Len(pDoc.tables),
                    !.tableHeaders =
                        [k \in 1..Len(pDoc.tables) |->
                            [index |-> k - 1,
                             headers |-> [h \in 1..Len(pDoc.tables[k].headerCells) |->
                                             normalizeText(pDoc.tables[k].headerCells[h])]]],
                    !.matchedTables = r.matched]
    /\ pPc' = IF NoIssuesYet(r.issues) THEN "cards" ELSE "finish"

\* lines 679-704: the table extractor, on every table
ExtractTables ==
    /\ pPc = "tables"
    /\ TablesDone(TablesFrom(pDoc.tables, 1, CurrentFile))
    /\ pRan' = Append(pRan, "table")
    /\ UNCHANGED <<pDoc, pBreakdown, pPageUrl, pCardIssues, pSynth, pThrown,
                   normVars, consVars, funVars, batchVars>>

\* if (condition) debug.warnings.push(text)
WarnedIf(condition, warnings, text) ==
    IF condition THEN Append(warnings, Warning(text, <<>>)) ELSE warnings

\* the bug of a fallback that is taken without a word
CardsDoneUnwarned(found) ==
    /\ pCardIssues' = found
    /\ IF Len(found) > 0 \/ Len(pBreakdown) > 0
       THEN /\ pDebug' = [pDebug EXCEPT !.warnings =
                            WarnedIf(Len(pBreakdown) > 0,
                                     WarnedIf(Len(found) > 0, @,
                                              "No issue tables matched; parsed Categories-style issue cards."),
                                     "WCAG breakdown counts detected; using them to ensure totals align even if sections are collapsed.")]
            /\ pIssues' = found
            /\ pPc' = IF Len(pBreakdown) > 0 THEN "gap-fill" ELSE "finish"
       ELSE /\ pDebug' = pDebug
            /\ pIssues' = pIssues
            /\ pPc' = "heuristic"

\* what the cards gave is kept, and the call goes on by it and the breakdown
CardsDone(found) ==
    /\ pCardIssues' = found
    /\ IF Len(found) > 0 \/ Len(pBreakdown) > 0
       THEN /\ pDebug' = [pDebug EXCEPT !.warnings =
                            WarnedIf(Len(pBreakdown) > 0,
                                     WarnedIf(Len(found) > 0, @,
                                              "No issue tables matched; parsed Categories-style issue cards."),
                                     "WCAG breakdown counts detected; using them to ensure totals align even if sections are collapsed.")]
            /\ pIssues' = found
            /\ pPc' = IF Len(pBreakdown) > 0 THEN "gap-fill" ELSE "finish"
       ELSE /\ pDebug' = [pDebug EXCEPT !.warnings =
                            WarnedIf(TRUE, @,
                                     "No issue tables matched; using fallback heuristic.")]
            /\ pIssues' = pIssues
            /\ pPc' = "heuristic"

\* lines 706-721 and 785-786: the card extractor, and where to go from it
ExtractCards ==
    /\ pPc = "cards"
    /\ CardsDone(parseCategoriesCardIssues(pDoc.elements, CurrentFile, pPageUrl))
    /\ pRan' = Append(pRan, "card")
    /\ UNCHANGED <<pDoc, pBreakdown, pPageUrl, pSynth, pThrown, normVars, consVars, funVars, batchVars>>

\* if (synth.length > 0) { issues = [...issues, ...synth]; debug.warnings.push(...) }
GapsFilled(made) ==
    /\ pSynth' = made
    /\ pIssues' = IF Len(made) > 0 THEN pIssues \o made ELSE pIssues
    /\ pDebug' = IF Len(made) > 0
                 THEN [pDebug EXCEPT !.warnings =
                          Append(@, Warning("Added synthetic issue(s) to account for collapsed sections so totals match the report: ",
                                            NumberText(Len(made))))]
                 ELSE pDebug

\* lines 723-784: the counts of the breakdown that no card accounts for
FillGaps ==
    /\ pPc = "gap-fill"
    /\ GapsFilled(SynthIssues(pCardIssues, pBreakdown, CurrentFile, pPageUrl))
    /\ pPc' = "finish"
    /\ pRan' = Append(pRan, "gap-fill")
    /\ UNCHANGED <<pDoc, pBreakdown, pPageUrl, pCardIssues, pThrown,
                   normVars, consVars, funVars, batchVars>>

\* line 787: the heuristic extractor
ExtractHeuristic ==
    /\ pPc = "heuristic"
    /\ pIssues' = parseHeuristicIssues(pDoc.candidates, CurrentFile)
    /\ pPc' = "finish"
    /\ pRan' = Append(pRan, "heuristic")
    /\ UNCHANGED <<pDoc, pDebug, pBreakdown, pPageUrl, pCardIssues, pSynth, pThrown,
                   normVars, consVars, funVars, batchVars>>

\* the debug record at the return, severityLabels being the labels found
FinalDebug(debug, issues, severityLabels) ==
    [debug EXCEPT
        !.issuesExtracted = Len(issues),
        !.severityLabelsFound = severityLabels,
        !.severityScheme =
            IF Len(severityLabels) > 0
            THEN <<inferSeveritySchemeFromRawLabels(severityLabels)>>
            ELSE <<>>]

\* lines 791-807: the counters and the severity scheme, and the return
FinishParse ==
    /\ pPc = "finish"
    /\ pDebug' = FinalDebug(pDebug, pIssues,
                            Dedup(NonEmpty([k \in 1..Len(pIssues) |->
                                               normalizeText(pIssues[k].severityOriginal)])))
    /\ pPc' = "returned"
    /\ UNCHANGED <<pDoc, pIssues, pBreakdown, pPageUrl, pCardIssues, pSynth, pRan,
                   pThrown, normVars, consVars, funVars, batchVars>>

ParseNext ==
    \/ ParseDocument
    \/ ExtractTables
    \/ ExtractCards
    \/ FillGaps
    \/ ExtractHeuristic
    \/ FinishParse

---------------------------------------------------------------------------
(* parseStarkHtmlReport on the documents of a pool *)

MaxCards == 2
MaxBadges == 2

\* what DOMParser makes of the HTML: no document when it fails, else the
\* views of the document that the extractors take with querySelectorAll
NoDocument ==
    [parses |-> FALSE, tables |-> <<>>, elements |-> <<>>, badges |-> <<>>,
     candidates |-> <<>>, pTexts |-> <<>>, bodyText |-> <<>>]

Documents ==
    {NoDocument} \cup
    { [parses |-> TRUE, tables |-> t, elements |-> e, badges |-> b,
       candidates |-> c, pTexts |-> p.pTexts, bodyText |-> p.bodyText] :
        t \in TableLists, e \in ListsUpTo(ElementPool, MaxCards),
        b \in ListsUpTo(BadgePool, MaxBadges), c \in CandidateLists,
        p \in PageViews }

ParseInit ==
    /\ pPc = "start"
    /\ pDoc \in Documents
    /\ pIssues = <<>>
    /\ pDebug = NewDebug
    /\ pBreakdown = <<>>
    /\ pPageUrl = Absent
    /\ pCardIssues = <<>>
    /\ pSynth = <<>>
    /\ pRan = <<>>
    /\ pThrown = FALSE
    /\ NormIdle
    /\ ConsIdle
    /\ FunIdle
    /\ BatchIdle

SpecParse == ParseInit /\ [][ParseNext]_vars

---------------------------------------------------------------------------
(* groupIssues of the remediation plan.  The group made for a new key is a   *)
(* shallow copy of the issue ({ ...i, ... }): its occurrences and severity   *)
(* are its own, its pages and sourceFiles are the arrays of the issue.  So   *)
(* the outcome is the groups together with the issues as the call leaves     *)
(* them; first, the place of the issue whose arrays a group shares, is not   *)
(* a field of the code's record.                                             *)

\* computeIssueKey of remediationPlan.ts
computeIssueKey(issue) ==
    toLowerCase(normalizeText(issue.ruleId) \o <<"|">> \o normalizeText(issue.wcag)
                \o <<"|">> \o OrElse(normalizeText(issue.title), IssueTitle)
                \o <<"|">> \o normalizeText(issue.description))

\* { title, description, wcag, ruleId } as groupIssues normalizes them
PlanFields(i) ==
    [title |-> OrElse(normalizeText(i.title), IssueTitle),
     description |-> normalizeText(i.description),
     wcag |-> normalizeText(i.wcag),
     ruleId |-> normalizeText(i.ruleId)]

\* `${category}|${computeIssueKey(...)}`, as the pair of its two parts (no
\* category holds the separator)
PlanKeyOf(fields) == <<categorizeIssue(fields), computeIssueKey(fields)>>

\* map.set(key, { ...i, key, category, title, description, wcag, ruleId })
NewPlanGroup(i, at, fields) ==
    [key |-> PlanKeyOf(fields),
     category |-> categorizeIssue(fields),
     title |-> fields.title,
     description |-> fields.description,
     wcag |-> fields.wcag,
     ruleId |-> fields.ruleId,
     severity |-> i.severity,
     occurrences |-> i.occurrences,
     first |-> at]

RECURSIVE PushMissing(_, _, _, _)
\* for (const p of more) if (p && !list.includes(p)) list.push(p); empty is
\* the empty string of the kind of the entries
PushMissing(list, more, k, empty) ==
    IF k > Len(more) THEN list
    ELSE PushMissing(IF more[k] # empty /\ ~\E j \in 1..Len(list) : list[j] = more[k]
                     THEN Append(list, more[k]) ELSE list,
                     more, k + 1, empty)

\* existing.pages.push(p) and existing.sourceFiles.push(s): the arrays are
\* those of the issue the group was copied from
MergedIntoShared(issues, first, i) ==
    [issues EXCEPT ![first].pages = PushMissing(@, i.pages, 1, <<>>),
                   ![first].sourceFiles = PushMissing(@, i.sourceFiles, 1, "")]

\* the lines behind "Shouldn't happen often ...": occurrences and severity
\* of the group
MergedGroup(existing, i) ==
    [existing EXCEPT
        !.occurrences = @ + FiniteOrOne(i.occurrences),
        !.severity = IF SEVERITY_ORDER(i.severity) > SEVERITY_ORDER(@)
                     THEN i.severity ELSE @]

\* the body of the loop for issue i, which stands at place at
PlanGroupInto(st, i, at, hit) ==
    IF hit = {}
    THEN [st EXCEPT !.groups = Append(@, NewPlanGroup(i, at, PlanFields(i)))]
    ELSE [groups |-> [st.groups EXCEPT ![Least(hit)] = MergedGroup(@, i)],
          issues |-> MergedIntoShared(st.issues, st.groups[Least(hit)].first, i)]

RECURSIVE PlanGroupsFrom(_, _, _)
PlanGroupsFrom(given, at, st) ==
    IF at > Len(given) THEN st
    ELSE PlanGroupsFrom(given, at + 1,
             PlanGroupInto(st, given[at], at,
                 {g \in 1..Len(st.groups) :
                     st.groups[g].key = PlanKeyOf(PlanFields(given[at]))}))

\* groupIssues(issues): the groups it returns, and the issues as it leaves them
groupIssues(issues) == PlanGroupsFrom(issues, 1, [groups |-> <<>>, issues |-> issues])

---------------------------------------------------------------------------

(* The functions of the parser, each on inputs of its own *)

\* an input: the function that is applied, and its argument
Input(fn, arg) == [fn |-> fn, arg |-> arg]

MaxWords == 2

\* words that raw severity labels are made of: the keywords of
\* normalizeSeverity in some letter cases, and words that are no keyword
LabelWords ==
    {<<"C", "r", "i", "t", "i", "c", "a", "l">>, <<"B", "L", "O", "C", "K", "E",
        "R">>, <<"s", "e", "v", "e", "r", "e">>, <<"S", "e", "r", "i", "o", "u",
        "s">>, <<"H", "i", "g", "h">>, <<"m", "o", "d", "e", "r", "a", "t", "e">>,
     <<"M", "E", "D", "I", "U", "M">>, <<"m", "i", "n", "o", "r">>, <<"L", "o",
         "w">>, <<"b", "e", "l", "o", "w">>, <<"F", "o", "o">>}

RECURSIVE LabelsUpTo(_)
\* the labels of at most n words, set side by side or a space apart
LabelsUpTo(n) ==
    IF n = 0 THEN {<<>>}
    ELSE {l \o sep \o w : l \in LabelsUpTo(n - 1), sep \in {<<>>, <<" ">>},
                          w \in LabelWords \cup {<<>>}}

MaxLabels == 2

\* raw severity labels of a document, one of them with a counter run into it
RawLabelPool ==
    {<<"H", "i", "g", "h">>,
     <<"M", "e", "d", "i", "u", "m">>,
     <<"l", "o", "w">>,
     <<"S", "e", "r", "i", "o", "u", "s">>,
     <<"M", "i", "n", "o", "r">>,
     <<"m", "o", "d", "e", "r", "a", "t", "e">>,
     <<"C", "R", "I", "T", "I", "C", "A", "L">>,
     <<"F", "o", "o">>,
     <<"h", "i", "g", "h", "l", "i", "g", "h", "t">>,
     <<"H", "i", "g", "h", " ", "/", " ", "S", "e", "r", "i", "o", "u", "s">>,
     <<>>,
     <<"H", "i", "g", "h", " ", "1", Passed>>}

\* texts of issues: for each rule one that its pattern finds, one that two
\* patterns find, and two that none finds
IssueTexts ==
    {<<"I", "m", "a", "g", "e", " ", "m", "i", "s", "s", "i", "n", "g", " ", "a", "l", "t">>,
     <<"L", "o", "w", " ", "c", "o", "n", "t", "r", "a", "s", "t", " ", "4", ".", "5", ":", "1">>,
     <<"I", "n", "p", "u", "t", " ", "h", "a", "s", " ", "n", "o", " ", "l", "a", "b", "e", "l">>,
     <<"E", "m", "p", "t", "y", " ", "l", "i", "n", "k">>,
     <<"B", "u", "t", "t", "o", "n", " ", "n", "a", "m", "e">>,
     <<"H", "e", "a", "d", "i", "n", "g", " ", "l", "e", "v", "e", "l">>,
     <<"L", "a", "n", "d", "m", "a", "r", "k", " ", "r", "o", "l", "e">>,
     <<"V", "i", "s", "i", "b", "l", "e", " ", "f", "o", "c", "u", "s">>,
     <<"L", "a", "n", "g", "u", "a", "g", "e", " ", "o", "f", " ", "p", "a", "g", "e">>,
     <<"D", "a", "t", "a", " ", "t", "a", "b", "l", "e">>,
     <<"L", "a", "b", "e", "l", " ", "o", "f", " ", "a", " ", "l", "i", "n", "k">>,
     <<"S", "o", "m", "e", "t", "h", "i", "n", "g", " ", "e", "l", "s", "e">>,
     <<>>}
RuleIds == {Absent, <<"i", "m", "a", "g", "e", "-", "a", "l", "t">>, <<"l", "i", "n", "k", "-", "n", "a", "m", "e">>}
WcagLabels ==
    {Absent, <<"1", ".", "4", ".", "3", " ", "C", "o", "n", "t", "r", "a", "s", "t", " ", "(", "M", "i", "n", "i", "m", "u", "m", ")">>,
     <<"2", ".", "4", ".", "7", " ", "F", "o", "c", "u", "s", " ", "V", "i", "s", "i", "b", "l", "e">>}

MaxCountLen == 3
CountAlphabet == {"0", "3", " ", "x", Passed}

RECURSIVE CountTextsUpTo(_)
\* the texts of at most n characters of CountAlphabet
CountTextsUpTo(n) ==
    IF n = 0 THEN {<<>>}
    ELSE {t \o c : t \in CountTextsUpTo(n - 1), c \in {<<>>} \cup {<<a>> : a \in CountAlphabet}}

\* texts that hold a count: those of the examples of parseOccurrences, and
\* cells into which the export ran a counter of the tests that passed
CountTexts ==
    {<<"(", "3", " ", "i", "n", "s", "t", "a", "n", "c", "e", "s", ")">>,
     <<"n", "o", " ", "d", "i", "g", "i", "t", "s", " ", "h", "e", "r", "e">>,
     <<"1", "2", " ", "o", "f", " ", "3", "0">>, <<"x", "0", "7">>,
     <<"3", " ", Passed>>,
     <<Passed, " ", "2", " ", "o", "f", " ", "5">>}

MaxRows == 2
CellCritical == <<"C", "r", "i", "t", "i", "c", "a", "l">>
CellImages ==
    <<"I", "m", "a", "g", "e", "s", " ", "m", "i", "s", "s", "i", "n", "g", " ", "a", "l", "t", " ", "t", "e", "x", "t">>
CellMany == <<"m", "a", "n", "y">>

HeadWcag == <<"W", "C", "A", "G">>
CellCriterion == <<"1", ".", "1", ".", "1">>

\* the header rows of the tables: that of the minimal issue table, one with
\* a title and a count as well, one that is not of an issue table, and two
\* with a column of the success criterion, before and behind the description
HeaderRows ==
    {<<HeadSeverity, HeadDescription>>,
     <<HeadIssue, HeadSeverity, HeadCount, HeadDescription>>,
     <<HeadSeverity, HeadDate>>,
     <<HeadSeverity, HeadWcag, HeadDescription>>,
     <<HeadSeverity, HeadDescription, HeadWcag>>}

\* what a cell under a header may read
CellsUnder(head) ==
    IF head = HeadSeverity THEN {Absent, CellCritical, CellHigh}
    ELSE IF head = HeadCount THEN {Absent, <<"0">>, <<"3">>, CellMany}
    ELSE IF head = HeadDescription THEN {Absent, CellImages}
    ELSE IF head = HeadIssue THEN {Absent, CellLabel}
    ELSE IF head = HeadWcag THEN {Absent, CellCriterion}
    ELSE {Absent, <<"3">>}

RECURSIVE RowsUnder(_)
\* the rows with a cell under each header
RowsUnder(headerCells) ==
    IF headerCells = <<>> THEN {<<>>}
    ELSE {<<c>> \o r : c \in CellsUnder(Head(headerCells)),
                       r \in RowsUnder(Tail(headerCells))}

\* the tables of at most MaxRows data rows under each header row
TableInputs ==
    UNION {{[headerCells |-> h, dataRows |-> rows] :
               rows \in ListsUpTo(RowsUnder(h), MaxRows)} : h \in HeaderRows}

\* cards whose label declares no count, the second with digits in its message
AriaNoCount == <<"V", "i", "o", "l", "a", "t", "i", "o", "n", ".", " ", "L", "i", "n",
    "k", " ", "h", "a", "s", " ", "n", "o", " ", "n", "a", "m", "e">>
AriaRatio == <<"V", "i", "o", "l", "a", "t", "i", "o", "n", ".", " ", "C", "o", "n", "t",
    "r", "a", "s", "t", " ", "r", "a", "t", "i", "o", " ", "b", "e", "l", "o", "w", " ",
    "4", ".", "5", ":", "1">>
\* a visible title with a digit, and one that is nothing but an instances suffix
TitleLevel == <<"L", "e", "v", "e", "l", " ", "2", " ", "h", "e", "a", "d", "i", "n", "g",
    " ", "s", "k", "i", "p", "p", "e", "d">>
TitleDashOnly == <<"-", " ", "(", "2", " ", "i", "n", "s", "t", "a", "n", "c", "e", "s", ")">>

NoCountCard ==
    [aria |-> AriaNoCount, visibleTitle |-> Absent, codeTexts |-> <<>>,
     chain |-> ChainNone]
RatioCard ==
    [aria |-> AriaRatio, visibleTitle |-> Absent, codeTexts |-> <<>>,
     chain |-> ChainNone]
TitleLevelCard ==
    [aria |-> AriaNoCount, visibleTitle |-> TitleLevel, codeTexts |-> <<>>,
     chain |-> ChainNone]
DashTitleCard ==
    [aria |-> AriaContrast, visibleTitle |-> TitleDashOnly, codeTexts |-> <<>>,
     chain |-> ChainContrast]

CardPool == ElementPool \cup {NoCountCard, RatioCard, TitleLevelCard, DashTitleCard}

\* the lists of at most MaxCards elements that carry an aria-label
CardInputs == ListsUpTo(CardPool, MaxCards)

MaxSnippetIssues == 10

\* the markup of an image, numbered
Snippet(n) == <<"<", "i", "m", "g", " ">> \o NumberText(n) \o <<">">>
PaddedSnippet == <<" ", " ", "<", "i", "m", "g", " ", "0", ">", " ">>
\* snippets of SnippetMax characters, of one more, and of one more with
\* another end
LongSnippet == [k \in 1..SnippetMax |-> "x"]
LongerSnippet == [k \in 1..(SnippetMax + 1) |-> "x"]
OtherLongerSnippet == [k \in 1..(SnippetMax + 1) |-> IF k < SnippetMax THEN "x" ELSE "y"]

SnippetPool ==
    {Absent, <<" ">>, Snippet(0), PaddedSnippet, LongSnippet, LongerSnippet,
     OtherLongerSnippet}

\* an issue of one and the same group, with its snippet
SnippetIssue(snippet) ==
    [title |-> <<"a">>, description |-> <<"d">>, ruleId |-> Absent, wcag |-> Absent,
     severity |-> "Minor", occurrences |-> 1, page |-> Absent,
     exampleSnippet |-> snippet, sourceFile |-> "f1.html"]

\* the lists of snippets: every pair of the pool, and the two long snippets
\* that are cut alike followed by up to MaxSnippetIssues numbered ones
SnippetLists ==
    ListsUpTo(SnippetPool, 2)
    \cup {<<LongerSnippet, OtherLongerSnippet>> \o [k \in 1..n |-> Snippet(k)] :
              n \in 0..MaxSnippetIssues}

MaxCountIssues == 3

\* (ruleId, wcag, title) of issues that are counted: two that differ in case
\* only, one with a rule, and three whose ruleId and wcag are "a|b" and
\* nothing, "a" and "b", "a" and "b|"
CountKeyPool ==
    { [ruleId |-> Absent, wcag |-> Absent, title |-> <<"a">>],
      [ruleId |-> Absent, wcag |-> Absent, title |-> <<"A">>],
      [ruleId |-> <<"r">>, wcag |-> Absent, title |-> <<"a">>],
      [ruleId |-> <<"a", "|", "b">>, wcag |-> Absent, title |-> <<"t">>],
      [ruleId |-> <<"a">>, wcag |-> <<"b">>, title |-> <<"t">>],
      [ruleId |-> <<"a">>, wcag |-> <<"b", "|">>, title |-> <<"t">>] }

\* an issue with its count, which may be no finite number
CountIssue(k, occ) ==
    [title |-> k.title, description |-> <<"d">>, ruleId |-> k.ruleId, wcag |-> k.wcag,
     severity |-> "Minor", occurrences |-> occ, page |-> Absent,
     exampleSnippet |-> Absent, sourceFile |-> "f1.html"]

CountInputs ==
    ListsUpTo({CountIssue(k, occ) : k \in CountKeyPool, occ \in {NoNumber, 1, 2}},
              MaxCountIssues)

ConsolidationInputs ==
    {[k \in 1..Len(l) |-> SnippetIssue(l[k])] : l \in SnippetLists}
    \cup CountInputs

MaxChainLen == 17

LabelInfo == <<"1", ".", "3", ".", "1", " ", "I", "n", "f", "o", " ", "a", "n", "d", " ",
    "R", "e", "l", "a", "t", "i", "o", "n", "s", "h", "i", "p", "s">>
LabelAdaptable == <<"1", ".", "3", " ", "A", "d", "a", "p", "t", "a", "b", "l", "e">>
\* a label of two numeric segments whose name holds dots
LabelDotted == <<"1", ".", "4", " ", "D", "i", "s", "t", "i", "n", "g", "u", "i", "s",
    "h", "a", "b", "l", "e", " ", "(", "i", "n", "c", "l", ".", " ", "c", "o", "l", "o",
    "r", ",", " ", "a", "u", "d", "i", "o", ",", " ", "e", "t", "c", ".", ")">>
LabelSummary == <<"S", "u", "m", "m", "a", "r", "y">>

\* the texts of the div elements of the button of a list item
ButtonTextPool ==
    { <<>>, <<LabelSummary>>, <<LabelNonText>>, <<LabelDistinguishable>>,
      <<LabelContrast>>, <<LabelAdaptable, LabelInfo>>, <<LabelDotted>> }

\* where the list items of a chain stand: next to the starting element, at
\* the last element that is examined, and behind it
ItemPlaces == {2, 3, MaxAncestorDepth, MaxAncestorDepth + 1}

\* a chain of MaxChainLen elements, all div but the list items at a and at b
ChainOf(a, textsA, b, textsB) ==
    [k \in 1..MaxChainLen |->
        IF k = a THEN [tag |-> "LI", buttonTexts |-> textsA]
        ELSE IF k = b THEN [tag |-> "LI", buttonTexts |-> textsB]
        ELSE [tag |-> "DIV", buttonTexts |-> <<>>]]

ChainInputs ==
    {ChainOf(a, ta, b, tb) : a \in ItemPlaces, b \in ItemPlaces \cup {MaxChainLen},
                             ta \in ButtonTextPool, tb \in ButtonTextPool}

\* descriptions as an extractor returns them: one that normalizeText leaves
\* alone, and normalizeText of a text with three counters of passed tests
PlanDescriptions ==
    { <<"d">>,
      normalizeText(<<"d", " ", "1", " ", "1", " ", "1", Passed, " ", Passed, " ", Passed>>) }

PlanIssuePool ==
    { [title |-> <<"a">>, description |-> d, ruleId |-> Absent, wcag |-> Absent,
       severity |-> lv.severity, occurrences |-> lv.occurrences,
       page |-> src.page, exampleSnippet |-> Absent, sourceFile |-> src.sourceFile] :
        d \in PlanDescriptions,
        lv \in {[severity |-> "Minor", occurrences |-> 1],
                [severity |-> "Critical", occurrences |-> 2]},
        src \in {[sourceFile |-> "f1.html", page |-> <<"u">>],
                 [sourceFile |-> "f2.html", page |-> <<"v">>]} }

\* the lists of parsed issues whose consolidation is handed to the plan
PlanRawLists == ListsUpTo(PlanIssuePool, MaxIssues)

\* lists of ConsolidatedIssues as a caller may hand them to the plan: two
\* issues consolidated apart, which may have the same key
PlanLists ==
    {consolidateIssues(<<a>>) \o consolidateIssues(<<b>>) :
        a \in PlanIssuePool, b \in PlanIssuePool}

FunInputs ==
    {Input("normalizeSeverity", l) : l \in LabelsUpTo(MaxWords)}
    \cup {Input("inferSeveritySchemeFromRawLabels", l) :
              l \in ListsUpTo(RawLabelPool, MaxLabels)}
    \cup {Input("categorizeIssue",
                [ruleId |-> r, wcag |-> w, title |-> t, description |-> d]) :
              r \in RuleIds, w \in WcagLabels, t \in IssueTexts, d \in IssueTexts}
    \cup {Input("parseOccurrences", t) : t \in CountTexts \cup CountTextsUpTo(MaxCountLen)}
    \cup {Input("parseTableIssues", t) : t \in TableInputs}
    \cup {Input("parseCategoriesCardIssues", e) : e \in CardInputs}
    \cup {Input("consolidateIssues", l) : l \in ConsolidationInputs}
    \cup {Input("extractBestWcagLabelFromAncestors", c) : c \in ChainInputs}
    \cup {Input("groupIssues", l) : l \in PlanLists}
    \cup {Input("issuesToRemediationPlanHtml", raw) : raw \in PlanRawLists}

FunInit ==
    /\ fPc = "input"
    /\ fIn \in FunInputs
    /\ fOut = <<>>
    /\ NormIdle
    /\ ConsIdle
    /\ ParseIdle
    /\ BatchIdle

\* the function returns
Returned(result) ==
    /\ fOut' = result
    /\ fPc' = "done"
    /\ UNCHANGED <<fIn, normVars, consVars, parseVars, batchVars>>

ApplyNormalizeSeverity ==
    /\ fPc = "input"
    /\ fIn.fn = "normalizeSeverity"
    /\ Returned(normalizeSeverity(fIn.arg))

ApplyInferSeverityScheme ==
    /\ fPc = "input"
    /\ fIn.fn = "inferSeveritySchemeFromRawLabels"
    /\ Returned(inferSeveritySchemeFromRawLabels(fIn.arg))

ApplyCategorizeIssue ==
    /\ fPc = "input"
    /\ fIn.fn = "categorizeIssue"
    /\ Returned(categorizeIssue(fIn.arg))

ApplyParseOccurrences ==
    /\ fPc = "input"
    /\ fIn.fn = "parseOccurrences"
    /\ Returned(parseOccurrences(fIn.arg))

ApplyParseTableIssues ==
    /\ fPc = "input"
    /\ fIn.fn = "parseTableIssues"
    /\ Returned(parseTableIssues(fIn.arg, 1, SourceFile))

ApplyParseCategoriesCardIssues ==
    /\ fPc = "input"
    /\ fIn.fn = "parseCategoriesCardIssues"
    /\ Returned(parseCategoriesCardIssues(fIn.arg, SourceFile, Absent))

ApplyConsolidateIssues ==
    /\ fPc = "input"
    /\ fIn.fn = "consolidateIssues"
    /\ Returned(consolidateIssues(fIn.arg))

ApplyExtractBestWcagLabel ==
    /\ fPc = "input"
    /\ fIn.fn = "extractBestWcagLabelFromAncestors"
    /\ Returned(extractBestWcagLabelFromAncestors(fIn.arg))

\* groupIssues has run on the list given
Grouped(given, outcome) ==
    Returned([given |-> given, groups |-> outcome.groups, issues |-> outcome.issues])

ApplyGroupIssues ==
    /\ fPc = "input"
    /\ fIn.fn = "groupIssues"
    /\ Grouped(fIn.arg, groupIssues(fIn.arg))

\* the plan of the issues that consolidateIssues returned: setIssues(
\* consolidateIssues(rawIssues)), then issuesToRemediationPlanHtml(issues),
\* which calls groupIssues(scoped) with no scopeCategory
PlanOf(issues) == Grouped(issues, groupIssues(issues))

ApplyPlanOfConsolidated ==
    /\ fPc = "input"
    /\ fIn.fn = "issuesToRemediationPlanHtml"
    /\ PlanOf(consolidateIssues(fIn.arg))

FunNext ==
    \/ ApplyNormalizeSeverity
    \/ ApplyInferSeverityScheme
    \/ ApplyCategorizeIssue
    \/ ApplyParseOccurrences
    \/ ApplyParseTableIssues
    \/ ApplyParseCategoriesCardIssues
    \/ ApplyConsolidateIssues
    \/ ApplyExtractBestWcagLabel
    \/ ApplyGroupIssues
    \/ ApplyPlanOfConsolidated

SpecFun == FunInit /\ [][FunNext]_vars

---------------------------------------------------------------------------
(* onFilesSelected, from the selection of the files to the display *)

MaxFiles == 2

\* a File of the FileList: its name, whether file.text() resolves, and what
\* DOMParser makes of its text
File(name, readable, doc) == [name |-> name, readable |-> readable, doc |-> doc]

\* a document with nothing but its tables, labelled elements, badges and
\* candidate blocks
DocumentOf(tables, elements, badges, candidates) ==
    [parses |-> TRUE, tables |-> tables, elements |-> elements, badges |-> badges,
     candidates |-> candidates, pTexts |-> <<>>, bodyText |-> <<>>]

HmlTable ==
    [headerCells |-> <<HeadSeverity, HeadDescription>>,
     dataRows |-> << <<CellHigh, CellField>> >>]
AxeTable ==
    [headerCells |-> <<HeadSeverity, HeadDescription>>,
     dataRows |-> << <<CellSerious, CellField>> >>]

UnreadableFile == File("gone.html", FALSE, NoDocument)
BrokenFile == File("broken.html", TRUE, NoDocument)
HmlFile == File("hml.html", TRUE, DocumentOf(<<HmlTable>>, <<>>, <<>>, <<>>))
AxeFile == File("axe.html", TRUE, DocumentOf(<<AxeTable>>, <<>>, <<>>, <<>>))
MixedFile == File("mixed.html", TRUE, DocumentOf(<<IssuesTable>>, <<>>, <<>>, <<>>))
CardFile ==
    File("cards.html", TRUE,
         DocumentOf(<<OtherTable>>,
                    <<[aria |-> AriaLink, visibleTitle |-> Absent,
                       codeTexts |-> <<>>, chain |-> ChainCounters]>>,
                    <<[label |-> "Failures", chain |-> ChainNonText,
                       innerText |-> <<"4">>, wrapperText |-> <<"4">>]>>,
                    <<>>))
PlainFile ==
    File("plain.html", TRUE, DocumentOf(<<>>, <<>>, <<>>, <<SeverityBlock, PlainBlock>>))

FilePool ==
    {UnreadableFile, BrokenFile, HmlFile, AxeFile, MixedFile, CardFile, PlainFile}

\* the selections: every list of at most MaxFiles files, the empty one included
Batches == ListsUpTo(FilePool, MaxFiles)

\* the message of the exception of a file.text() that rejects
ReadFailure == "The file could not be read."

\* debugByFile.map((f) => f.debug.severityScheme).filter(typeof s === "string")
SchemesOf(debugByFile) ==
    { debugByFile[k].debug.severityScheme[1] :
        k \in {j \in 1..Len(debugByFile) :
                  Len(debugByFile[j].debug.severityScheme) > 0} }

\* the bug of preferring axe whenever a file used it
BatchSchemePreferringAxe(schemes) ==
    IF "axe" \in schemes THEN "axe"
    ELSE IF "hml" \in schemes THEN "hml"
    ELSE "unknown"

\* Prefer High/Medium/Low labeling if any file used it.
BatchScheme(schemes) ==
    IF "hml" \in schemes THEN "hml"
    ELSE IF "axe" \in schemes THEN "axe"
    ELSE "unknown"

\* parseStarkHtmlReport is not running
ParseAtRest ==
    /\ pPc' = "idle" /\ pDoc' = <<>> /\ pIssues' = <<>> /\ pDebug' = <<>>
    /\ pBreakdown' = <<>> /\ pPageUrl' = <<>> /\ pCardIssues' = <<>>
    /\ pSynth' = <<>> /\ pRan' = <<>> /\ pThrown' = FALSE

\* lines 140-144: the state of the component is cleared
Cleared ==
    /\ uiError' = <<>>
    /\ uiIssues' = <<>>
    /\ uiParsedFiles' = <<>>
    /\ uiOverrides' = {}
    /\ uiSeverityScheme' = "unknown"

\* lines 139-151: the files are selected; the state is cleared, and with no
\* file the call returns.  The file input is disabled while busy.
SelectFiles ==
    /\ ~uiBusy
    /\ bPc \in {"idle", "shown", "failed"}
    /\ \E files \in Batches :
        /\ Cleared
        /\ bFiles' = files
        /\ bAt' = IF Len(files) = 0 THEN 0 ELSE 1
        /\ bPc' = IF Len(files) = 0 THEN "idle" ELSE "read"
        /\ uiBusy' = (Len(files) > 0)
    /\ bRaw' = <<>>
    /\ bDebugByFile' = <<>>
    /\ bReturned' = <<>>
    /\ bMerged' = <<>>
    /\ UNCHANGED <<parseVars, normVars, consVars, funVars>>

\* lines 178-182: catch (e) { setError(...) } finally { setBusy(false) }
Caught(message) ==
    /\ uiError' = <<message>>
    /\ uiBusy' = FALSE
    /\ bPc' = "failed"
    /\ UNCHANGED <<bFiles, bAt, bRaw, bDebugByFile, bReturned, bMerged, uiIssues,
                   uiParsedFiles, uiOverrides, uiSeverityScheme>>

\* parseStarkHtmlReport(text, file.name) is entered
ParseEntered(doc) ==
    /\ pPc' = "start"
    /\ pDoc' = doc
    /\ pIssues' = <<>>
    /\ pDebug' = NewDebug
    /\ pBreakdown' = <<>>
    /\ pPageUrl' = Absent
    /\ pCardIssues' = <<>>
    /\ pSynth' = <<>>
    /\ pRan' = <<>>
    /\ pThrown' = FALSE

\* lines 154-155: const text = await file.text(), which rejects for a file
\* that cannot be read, and the call of parseStarkHtmlReport
ReadNext ==
    /\ bPc = "read"
    /\ IF ~bFiles[bAt].readable
       THEN /\ Caught(ReadFailure)
            /\ UNCHANGED parseVars
       ELSE /\ ParseEntered(bFiles[bAt].doc)
            /\ bPc' = "parse"
            /\ UNCHANGED <<bFiles, bAt, bRaw, bDebugByFile, bReturned, bMerged, uiError,
                           uiIssues, uiParsedFiles, uiOverrides, uiSeverityScheme,
                           uiBusy>>
    /\ UNCHANGED <<normVars, consVars, funVars>>

\* lines 156-161: rawIssues.push(...parsed.issues); debugByFile.push({...})
Pushed(fileName, issues, debug) ==
    /\ bRaw' = bRaw \o issues
    /\ bDebugByFile' = Append(bDebugByFile,
                              [fileName |-> fileName, issuesFound |-> Len(issues),
                               debug |-> debug])
    /\ bReturned' = Append(bReturned, issues)
    /\ bAt' = IF bAt < Len(bFiles) THEN bAt + 1 ELSE bAt
    /\ bPc' = IF bAt < Len(bFiles) THEN "read" ELSE "merge"
    /\ UNCHANGED <<bFiles, bMerged, uiError, uiIssues, uiParsedFiles, uiOverrides,
                   uiSeverityScheme, uiBusy>>

\* lines 153-162: parseStarkHtmlReport has returned for the file, or thrown
TakeParsed ==
    /\ bPc = "parse"
    /\ pPc = "returned"
    /\ IF pThrown
       THEN Caught("Failed to parse files")
       ELSE Pushed(bFiles[bAt].name, pIssues, pDebug)
    /\ ParseAtRest
    /\ UNCHANGED <<normVars, consVars, funVars>>

\* lines 173-177: setSeverityScheme(scheme); setIssues(consolidated);
\* setParsedFiles(debugByFile)
Shown(scheme, merged) ==
    /\ uiSeverityScheme' = scheme
    /\ uiIssues' = merged
    /\ uiParsedFiles' = bDebugByFile

\* lines 164-182: the scheme of the batch, the one call of consolidateIssues,
\* and the display
ShowBatch ==
    /\ bPc = "merge"
    /\ Shown(BatchScheme(SchemesOf(bDebugByFile)), consolidateIssues(bRaw))
    /\ bMerged' = Append(bMerged, bRaw)
    /\ uiBusy' = FALSE
    /\ bPc' = "shown"
    /\ UNCHANGED <<bFiles, bAt, bRaw, bDebugByFile, bReturned, uiError, uiOverrides,
                   parseVars, normVars, consVars, funVars>>

\* const key = `${categorizeIssue(issue)}|${computeIssueKey(issue)}`
OverrideKey(issue) == <<categorizeIssue(issue), GroupKey(issue)>>

\* setEstimate(issue, hours) on a row of the issues displayed: the hours are
\* kept under the key of the issue, or dropped when hours is undefined (an
\* override is its key: notes are left out)
SetEstimate ==
    /\ \E i \in 1..Len(uiIssues), given \in BOOLEAN :
        uiOverrides' = IF given
                       THEN uiOverrides \cup {OverrideKey(uiIssues[i])}
                       ELSE uiOverrides \ {OverrideKey(uiIssues[i])}
    /\ UNCHANGED <<bPc, bFiles, bAt, bRaw, bDebugByFile, bReturned, bMerged, uiError,
                   uiIssues, uiParsedFiles, uiSeverityScheme, uiBusy,
                   parseVars, normVars, consVars, funVars>>

BatchNext ==
    \/ SelectFiles
    \/ ReadNext
    \/ ParseNext
    \/ TakeParsed
    \/ ShowBatch
    \/ SetEstimate

BatchInit ==
    /\ BatchIdle
    /\ ParseIdle
    /\ NormIdle
    /\ ConsIdle
    /\ FunIdle

SpecBatch == BatchInit /\ [][BatchNext]_vars

---------------------------------------------------------------------------
(* Claims about consolidateIssues *)

ConsDone == cPc \in {"done", "varied"}

Range(seq) == {seq[k] : k \in 1..Len(seq)}

NoDuplicates(seq) == \A j, k \in 1..Len(seq) : j # k => seq[j] # seq[k]

RECURSIVE SumOver(_, _)
\* the sum of f over a finite set of positions
SumOver(f, S) ==
    IF S = {} THEN 0
    ELSE LET x == CHOOSE y \in S : TRUE IN f[x] + SumOver(f, S \ {x})

\* (ruleId, wcag, normalized title, normalized description) of an issue; an
\* absent ruleId or wcag is the empty text
MergeFields(issue) ==
    <<issue.ruleId, issue.wcag,
      normalizeText(issue.title), normalizeText(issue.description)>>

\* the groups that hold position i of rawIssues
GroupsOf(i) == {g \in 1..Len(consolidated) : i \in Range(consolidated[g].members)}

\* C1: any two ParsedIssues of the input whose (ruleId, wcag, normalized title,
\* normalized description) are identical end up in exactly one
\* ConsolidatedIssue, whose occurrences is the sum of its members' occurrences
\* and whose pages and sourceFiles are the deduplicated unions of the members'
\* pages and source files.
MergedIntoOneGroup ==
    ConsDone =>
        \A i, j \in 1..Len(rawIssues) :
            (i < j /\ MergeFields(rawIssues[i]) = MergeFields(rawIssues[j])) =>
                /\ Cardinality(GroupsOf(i) \cup GroupsOf(j)) = 1
                /\ \A g \in GroupsOf(i) :
                    LET c == consolidated[g]
                        m == Range(c.members)
                    IN  /\ c.occurrences
                             = SumOver([k \in m |-> rawIssues[k].occurrences], m)
                        /\ NoDuplicates(c.pages)
                        /\ Range(c.pages)
                             = {rawIssues[k].page : k \in m} \ {Absent}
                        /\ NoDuplicates(c.sourceFiles)
                        /\ Range(c.sourceFiles) = {rawIssues[k].sourceFile : k \in m}

\* C2: the severity of every ConsolidatedIssue is the maximum, under
\* Unknown < Minor < Moderate < Serious < Critical, of the severities of the
\* ParsedIssues merged into it, and pickHighestSeverity of the empty list is
\* Unknown.
SeverityIsMaximum ==
    /\ pickHighestSeverity(<<>>) = "Unknown"
    /\ ConsDone =>
        \A g \in 1..Len(consolidated) :
            LET c == consolidated[g]
            IN  /\ \A k \in Range(c.members) :
                      SEVERITY_ORDER(rawIssues[k].severity) <= SEVERITY_ORDER(c.severity)
                /\ \E k \in Range(c.members) : rawIssues[k].severity = c.severity

SeverityIsMaximumWitness ==
    /\ ConsDone
    /\ \E g \in 1..Len(consolidated) :
          LET m == consolidated[g].members
          IN  /\ Len(m) = 2
              /\ SEVERITY_ORDER(rawIssues[m[1]].severity)
                   > SEVERITY_ORDER(rawIssues[m[2]].severity)
              /\ consolidated[g].severity = "Serious"

\* the groups of a consolidated list as sets of positions of the input
MemberSets(list) == {Range(list[g].members) : g \in 1..Len(list)}

\* C3: the grouping depends only on the normalized (ruleId, wcag, title,
\* description): a list that differs from rawIssues only in the severity,
\* page, sourceFile, occurrences or exampleSnippet of an issue is partitioned
\* into the same groups (as many ConsolidatedIssues, with the same members).
GroupingIgnoresOtherFields ==
    [][cPc' = "varied" =>
        /\ Len(consolidated') = Len(consolidated)
        /\ MemberSets(consolidated') = MemberSets(consolidated)]_vars

GroupingIgnoresOtherFieldsWitness ==
    /\ cPc = "varied"
    /\ \E g \in 1..Len(consolidated) :
          LET m == consolidated[g].members
          IN  /\ Len(m) = 2
              /\ rawIssues[m[1]].severity # rawIssues[m[2]].severity
              /\ rawIssues[m[1]].sourceFile # rawIssues[m[2]].sourceFile
              /\ rawIssues[m[1]].occurrences # rawIssues[m[2]].occurrences

\* C4: the returned list is ordered by severity descending and, among equal
\* severities, by occurrences descending; groups that tie on both keep the
\* order in which their key was first met in the input.
OrderedBySeverityThenOccurrences ==
    ConsDone =>
        \A g \in 1..(Len(consolidated) - 1) :
            LET a == consolidated[g]
                b == consolidated[g + 1]
            IN  \/ SEVERITY_ORDER(a.severity) > SEVERITY_ORDER(b.severity)
                \/ /\ a.severity = b.severity
                   /\ a.occurrences > b.occurrences
                \/ /\ a.severity = b.severity
                   /\ a.occurrences = b.occurrences
                   /\ a.members[1] < b.members[1]

\* two groups with the same severity, put in the order of their occurrences
\* against the order in which they were met
OrderedBySeverityThenOccurrencesWitness ==
    /\ ConsDone
    /\ Len(consolidated) = 2
    /\ consolidated[1].severity = consolidated[2].severity
    /\ consolidated[1].occurrences > consolidated[2].occurrences
    /\ consolidated[1].members[1] > consolidated[2].members[1]

---------------------------------------------------------------------------
\* C5: normalizeText is idempotent: normalising the result of normalizeText
\* again returns it unchanged.
NormalizeIdempotent == nPc = "twice" => nOut = nIn

---------------------------------------------------------------------------
(* Claims about parseStarkHtmlReport *)

ParseReturned == pPc = "returned"

\* the extractor has run
HasRun(name) == \E k \in 1..Len(pRan) : pRan[k] = name

\* the issues of a list that a given extractor made from a given element
MadeFrom(list, kinds, at) ==
    SelectSeq(list, LAMBDA i : i.origin.kind \in kinds /\ i.origin.at = at)

\* C6: every ParsedIssue that parseStarkHtmlReport holds or returns, whichever
\* strategy produced it (table row, category card, per-instance issue,
\* remainder issue, gap-fill placeholder, heuristic match), has
\* occurrences >= 1.
OccurrencesAtLeastOne ==
    \A k \in 1..Len(pIssues) : pIssues[k].occurrences >= 1

\* a table row whose count cell reads 0 has been returned as an issue
OccurrencesAtLeastOneWitness ==
    /\ ParseReturned
    /\ \E k \in 1..Len(pIssues) :
          /\ pIssues[k].origin.kind = "table row"
          /\ pIssues[k].title = CellZero
          /\ pIssues[k].occurrences = 1

\* C7: when the HTML cannot be parsed into a document, parseStarkHtmlReport
\* returns an empty issue list and a debug record that holds a warning and
\* whose tablesFound, matchedTables and issuesExtracted are 0; and no
\* exception ever reaches the caller.
FailsSoftly ==
    /\ ~pThrown
    /\ (ParseReturned /\ ~pDoc.parses) =>
          /\ pIssues = <<>>
          /\ Len(pDebug.warnings) >= 1
          /\ pDebug.tablesFound = 0
          /\ pDebug.matchedTables = 0
          /\ pDebug.issuesExtracted = 0

FailsSoftlyWitness == ParseReturned /\ ~pDoc.parses

StrategyTraces ==
    { <<>>, <<"table">>, <<"table", "card">>, <<"table", "card", "gap-fill">>,
      <<"table", "card", "heuristic">> }

\* the extractors run in the order table, card (with the gap-fill), heuristic,
\* and one contributes issues only when every earlier one yielded none
RunInPriorityOrder ==
    /\ pRan \in StrategyTraces
    /\ pDebug.matchedTables > 0 => ~HasRun("card")
    /\ \A k \in 1..Len(pIssues) :
          /\ pIssues[k].origin.kind \in {"card", "instance", "remainder", "gap-fill"}
                => pDebug.matchedTables = 0
          /\ pIssues[k].origin.kind = "heuristic"
                => /\ pDebug.matchedTables = 0
                   /\ pCardIssues = <<>>
                   /\ pSynth = <<>>

\* C8 (as the code has it): the extractors run in the priority order table,
\* card (with the gap-fill layered on), heuristic; a later one contributes
\* only when every earlier one yielded no issue; and the heuristic extractor
\* is run exactly when no table yielded an issue, the card extractor yielded
\* no issue and no WCAG breakdown was read.
StrategyOrder ==
    /\ RunInPriorityOrder
    /\ (ParseReturned /\ pDoc.parses) =>
          (HasRun("heuristic") <=>
              /\ pDebug.matchedTables = 0
              /\ pCardIssues = <<>>
              /\ pBreakdown = <<>>)

\* a breakdown whose counts are all accounted for, no card, and a candidate
\* block that the heuristic extractor was not run on
StrategyOrderWitness ==
    /\ ParseReturned
    /\ pBreakdown # <<>>
    /\ pCardIssues = <<>>
    /\ pSynth = <<>>
    /\ pIssues = <<>>
    /\ pDoc.candidates # <<>>
    /\ pRan = <<"table", "card", "gap-fill">>

\* C8 (as claimed): the same order, and the heuristic extractor is run whenever
\* the table and the card/gap-fill strategies together yielded no issue.
StrategyOrderAsClaimed ==
    /\ RunInPriorityOrder
    /\ (ParseReturned /\ pDoc.parses /\ pDebug.matchedTables = 0
          /\ pCardIssues = <<>> /\ pSynth = <<>>) => HasRun("heuristic")

RECURSIVE SumOccurrencesWhere(_, _, _, _)
\* the occurrences of the issues of a list with a given wcag and severity
SumOccurrencesWhere(list, wcag, severity, i) ==
    IF i > Len(list) THEN 0
    ELSE (IF list[i].wcag = wcag /\ list[i].severity = severity
          THEN list[i].occurrences ELSE 0)
             + SumOccurrencesWhere(list, wcag, severity, i + 1)

\* the synthetic issues for a criterion are as many as expected (one when the
\* aggregate count exceeds what the cards hold, else none), with the missing
\* count as occurrences
GapFilled(wcag, severity, total) ==
    LET found == SumOccurrencesWhere(pCardIssues, wcag, severity, 1)
        made == SelectSeq(pSynth, LAMBDA i : i.wcag = wcag /\ i.severity = severity)
    IN  /\ Len(made) = IF total > found THEN 1 ELSE 0
        /\ \A k \in 1..Len(made) : made[k].occurrences = total - found
        /\ SumOccurrencesWhere(pIssues, wcag, severity, 1) >= total

DeclaredCount(el) ==
    LET digits == MatchAria(normalizeText(el.aria)).digits
    IN  IF digits = <<>> THEN NoNumber ELSE ParseDigits(digits, 1, Len(digits), 0)

\* the issues made from the alt-text card at position at, which declares n
\* instances: one per image-like snippet, with occurrences 1 and the snippet,
\* and one more for the remainder exactly when n exceeds their number
RemainderSynthesised(at, n) ==
    LET card == CardOf(pDoc.elements[at])
        known == Len(card.instanceSnippets)
        made == MadeFrom(pCardIssues, {"card", "instance", "remainder"}, at)
    IN  /\ Len(made) = known + (IF n > known THEN 1 ELSE 0)
        /\ \A k \in 1..Len(made) :
              IF k <= known
              THEN /\ made[k].occurrences = 1
                   /\ made[k].exampleSnippet = card.instanceSnippets[k]
              ELSE /\ made[k].occurrences = n - known
                   /\ made[k].exampleSnippet = Absent
                   /\ made[k].description
                        = RemainderDescription(card.description, n - known)

\* the elements of the document that are alt-text-related cards
AltTextCards ==
    {at \in 1..Len(pDoc.elements) :
        LET card == CardOf(pDoc.elements[at])
        IN  ~card.skipped /\ card.wantsInstances}

\* the count that the code goes by for a card whose label declares n
\* instances: n itself when n >= 1, else the first integer of the description,
\* 1 when it has none or a 0
CountGoneBy(el, n) ==
    IF n >= 1 THEN n ELSE parseOccurrences(CardOf(el).description)

\* C10 (as the code has it): an alt-text-related card that declares N
\* instances and exposes k image-like snippets yields k per-instance issues
\* with occurrences 1, each carrying its snippet, and, with M = N when N >= 1
\* and M = parseOccurrences(description) when N = 0, exactly one remainder
\* issue with occurrences M - k when M > k, none when M <= k.
RemainderSynthesis ==
    HasRun("card") =>
        \A at \in AltTextCards :
            LET n == DeclaredCount(pDoc.elements[at])
            IN  n # NoNumber =>
                    RemainderSynthesised(at, CountGoneBy(pDoc.elements[at], n))

\* a card that declares 5 instances and exposes 2 snippets has yielded 2
\* issues of 1 occurrence and 1 issue of 3 occurrences
RemainderSynthesisWitness ==
    /\ HasRun("card")
    /\ \E at \in AltTextCards :
          LET made == MadeFrom(pCardIssues, {"card", "instance", "remainder"}, at)
          IN  /\ DeclaredCount(pDoc.elements[at]) = 5
              /\ Len(CardOf(pDoc.elements[at]).instanceSnippets) = 2
              /\ Len(made) = 3
              /\ made[1].occurrences = 1
              /\ made[2].occurrences = 1
              /\ made[3].occurrences = 3

\* C10 (as claimed): the same for every declared N, N = 0 included.
RemainderSynthesisAsClaimed ==
    HasRun("card") =>
        \A at \in AltTextCards :
            DeclaredCount(pDoc.elements[at]) # NoNumber =>
                RemainderSynthesised(at, DeclaredCount(pDoc.elements[at]))

---------------------------------------------------------------------------
(* Claims about the functions of the parser *)

\* function fn has returned
Applied(fn) == fPc = "done" /\ fIn.fn = fn

\* the text holds one of the words at some place, whatever the letter case
Mentions(text, words) ==
    \E w \in words : \E i \in 1..Len(text) :
        /\ i + Len(w) - 1 <= Len(text)
        /\ \A k \in 1..Len(w) : ToLowerChar(text[i + k - 1]) = w[k]

\* C11: normalizeSeverity gives Critical to a label that holds critical,
\* blocker or severe in any letter case; else Serious to one that holds
\* serious or high; else Moderate to one that holds moderate or medium; else
\* Minor to one that holds minor or low; and Unknown exactly to the labels
\* that hold none of these words.
SeverityByKeyword ==
    Applied("normalizeSeverity") =>
        /\ fOut = "Critical" <=> Mentions(fIn.arg, CriticalWords)
        /\ fOut = "Serious" <=>
              /\ ~Mentions(fIn.arg, CriticalWords)
              /\ Mentions(fIn.arg, SeriousWords)
        /\ fOut = "Moderate" <=>
              /\ ~Mentions(fIn.arg, CriticalWords \cup SeriousWords)
              /\ Mentions(fIn.arg, ModerateWords)
        /\ fOut = "Minor" <=>
              /\ ~Mentions(fIn.arg, CriticalWords \cup SeriousWords \cup ModerateWords)
              /\ Mentions(fIn.arg, MinorWords)
        /\ fOut = "Unknown" <=>
              ~Mentions(fIn.arg, CriticalWords \cup SeriousWords \cup ModerateWords
                                     \cup MinorWords)

\* a label that holds a keyword of Minor before one of Critical, in capitals
SeverityByKeywordWitness ==
    /\ Applied("normalizeSeverity")
    /\ fIn.arg = <<"L", "o", "w", " ", "B", "L", "O", "C", "K", "E", "R">>
    /\ fOut = "Critical"

\* the text holds one of the words as a whole word, whatever the letter case
NamesWord(text, words) ==
    \E w \in words : \E i \in 1..Len(text) :
        /\ i + Len(w) - 1 <= Len(text)
        /\ \A k \in 1..Len(w) : ToLowerChar(text[i + k - 1]) = w[k]
        /\ (i = 1 \/ text[i - 1] \notin WordChars)
        /\ (i + Len(w) > Len(text) \/ text[i + Len(w)] \notin WordChars)

SomeNames(labels, words) == \E k \in 1..Len(labels) : NamesWord(labels[k], words)

\* C12: inferSeveritySchemeFromRawLabels gives "hml" when some label names
\* high, medium or low and none names serious, moderate or minor; "axe" when
\* some label names serious, moderate or minor, or when none names high,
\* medium or low and some label names critical; "unknown" otherwise.  So
\* [High, Medium] is hml, [Serious, Minor] is axe and [Foo] is unknown.
SchemeOfLabels ==
    Applied("inferSeveritySchemeFromRawLabels") =>
        /\ fOut = "hml" <=>
              SomeNames(fIn.arg, HmlWords) /\ ~SomeNames(fIn.arg, AxeWords)
        /\ fOut = "axe" <=>
              \/ SomeNames(fIn.arg, AxeWords)
              \/ /\ ~SomeNames(fIn.arg, HmlWords)
                 /\ SomeNames(fIn.arg, {<<"c", "r", "i", "t", "i", "c", "a", "l">>})
        /\ fOut \in {"hml", "axe", "unknown"}
        /\ fIn.arg = <<<<"H", "i", "g", "h">>, <<"M", "e", "d", "i", "u",
            "m">>>> => fOut = "hml"
        /\ fIn.arg = <<<<"S", "e", "r", "i", "o", "u", "s">>, <<"M", "i", "n", "o",
            "r">>>> => fOut = "axe"
        /\ fIn.arg = <<<<"F", "o", "o">>>> => fOut = "unknown"

\* labels of both vocabularies
SchemeOfLabelsWitness ==
    /\ Applied("inferSeveritySchemeFromRawLabels")
    /\ fIn.arg = <<<<"H", "i", "g", "h">>, <<"S", "e", "r", "i", "o", "u", "s">>>>
    /\ fOut = "axe"

\* the rules of categorizeIssue in the order of the claim
CategoryOrder ==
    <<"Alt text", "Color contrast", "Form labels", "Link text", "Button text",
      "Headings", "ARIA / landmarks", "Keyboard / focus", "Language", "Tables">>

\* what a text of the inputs mentions: the rules whose subject it names
Topics(text) ==
    IF text = <<"I", "m", "a", "g", "e", " ", "m", "i", "s", "s", "i", "n", "g", " ", "a",
        "l", "t">> THEN {"Alt text"} ELSE
    IF text = <<"L", "o", "w", " ", "c", "o", "n", "t", "r", "a", "s", "t", " ", "4", ".",
        "5", ":", "1">> THEN {"Color contrast"} ELSE
    IF text = <<"I", "n", "p", "u", "t", " ", "h", "a", "s", " ", "n", "o", " ", "l", "a",
        "b", "e", "l">> THEN {"Form labels"} ELSE
    IF text = <<"E", "m", "p", "t", "y", " ", "l", "i", "n", "k">> THEN {"Link text"} ELSE
    IF text = <<"B", "u", "t", "t", "o", "n", " ", "n", "a", "m",
        "e">> THEN {"Button text"} ELSE
    IF text = <<"H", "e", "a", "d", "i", "n", "g", " ", "l", "e", "v", "e",
        "l">> THEN {"Headings"} ELSE
    IF text = <<"L", "a", "n", "d", "m", "a", "r", "k", " ", "r", "o", "l",
        "e">> THEN {"ARIA / landmarks"} ELSE
    IF text = <<"V", "i", "s", "i", "b", "l", "e", " ", "f", "o", "c", "u",
        "s">> THEN {"Keyboard / focus"} ELSE
    IF text = <<"L", "a", "n", "g", "u", "a", "g", "e", " ", "o", "f", " ", "p", "a", "g",
        "e">> THEN {"Language"} ELSE
    IF text = <<"D", "a", "t", "a", " ", "t", "a", "b", "l", "e">> THEN {"Tables"} ELSE
    IF text = <<"L", "a", "b", "e", "l", " ", "o", "f", " ", "a", " ", "l", "i", "n",
        "k">> THEN {"Form labels", "Link text"} ELSE
    IF text = <<"i", "m", "a", "g", "e", "-", "a", "l", "t">> THEN {"Alt text"} ELSE
    IF text = <<"l", "i", "n", "k", "-", "n", "a", "m", "e">> THEN {"Link text"} ELSE
    IF text = <<"1", ".", "4", ".", "3", " ", "C", "o", "n", "t", "r", "a", "s", "t", " ",
        "(", "M", "i", "n", "i", "m", "u", "m", ")">> THEN {"Color contrast"} ELSE
    IF text = <<"2", ".", "4", ".", "7", " ", "F", "o", "c", "u", "s", " ", "V", "i", "s",
        "i", "b", "l", "e">> THEN {"Keyboard / focus"} ELSE
    {}

TopicsOf(input) ==
    Topics(input.ruleId) \cup Topics(input.wcag) \cup Topics(input.title)
        \cup Topics(input.description)

\* C14: categorizeIssue gives the first rule, in the order Alt text, Color
\* contrast, Form labels, Link text, Button text, Headings, ARIA / landmarks,
\* Keyboard / focus, Language, Tables, whose subject the ruleId, the wcag
\* label, the title or the description of the issue mentions, and Other when
\* they mention none: an issue that mentions a label and a link is Form labels.
FirstMatchingCategory ==
    Applied("categorizeIssue") =>
        IF TopicsOf(fIn.arg) = {} THEN fOut = "Other"
        ELSE \E k \in 1..Len(CategoryOrder) :
                /\ fOut = CategoryOrder[k]
                /\ CategoryOrder[k] \in TopicsOf(fIn.arg)
                /\ \A j \in 1..(k - 1) : CategoryOrder[j] \notin TopicsOf(fIn.arg)

\* the title names a link and the description, after it, a label
FirstMatchingCategoryWitness ==
    /\ Applied("categorizeIssue")
    /\ fIn.arg.ruleId = Absent /\ fIn.arg.wcag = Absent
    /\ fIn.arg.title = <<"E", "m", "p", "t", "y", " ", "l", "i", "n", "k">>
    /\ fIn.arg.description = <<"I", "n", "p", "u", "t", " ", "h", "a", "s", " ", "n", "o",
        " ", "l", "a", "b", "e", "l">>
    /\ fOut = "Form labels"

RECURSIVE DecimalValue(_)
\* the number that a run of digits writes
DecimalValue(digits) ==
    IF digits = <<>> THEN 0
    ELSE 10 * DecimalValue(SubSeq(digits, 1, Len(digits) - 1))
             + DigitValue(digits[Len(digits)])

\* the first integer written in the text, when it is positive, and else 1
FirstPositiveOrOne(text) ==
    LET at == {i \in 1..Len(text) : text[i] \in Digits}
        first == CHOOSE i \in at : \A j \in at : i <= j
        last == CHOOSE j \in first..Len(text) :
                    /\ \A k \in first..j : text[k] \in Digits
                    /\ j = Len(text) \/ text[j + 1] \notin Digits
        n == DecimalValue(SubSeq(text, first, last))
    IN  IF at = {} THEN 1 ELSE IF n > 0 THEN n ELSE 1

\* the examples of the claim
OccurrenceExamples ==
    /\ fIn.arg = <<"(", "3", " ", "i", "n", "s", "t", "a", "n", "c", "e", "s", ")">> => fOut = 3
    /\ fIn.arg = <<>> => fOut = 1
    /\ fIn.arg = <<"n", "o", " ", "d", "i", "g", "i", "t", "s", " ", "h", "e", "r",
        "e">> => fOut = 1

\* C17, as amended: parseOccurrences returns the first integer found in its
\* text once normalizeText has stripped the counters of passed tests from it,
\* when that integer is positive, and returns 1 in every other case (nothing
\* left of the text, no digit, first integer 0).
FirstIntegerAfterNormalizing ==
    Applied("parseOccurrences") =>
        /\ fOut = FirstPositiveOrOne(normalizeText(fIn.arg))
        /\ OccurrenceExamples

\* the first integer of the text, 2, belongs to a counter; the count is 5
FirstIntegerAfterNormalizingWitness ==
    /\ Applied("parseOccurrences")
    /\ fIn.arg = <<Passed, " ", "2", " ", "o", "f", " ", "5">>
    /\ fOut = 5

\* C17, as claimed: parseOccurrences returns the first integer found in its
\* text when that integer is positive, and returns 1 in every other case.
FirstIntegerOfText ==
    Applied("parseOccurrences") =>
        /\ fOut = FirstPositiveOrOne(fIn.arg)
        /\ OccurrenceExamples

\* the keys of the header cells of a table
HeaderKeysOf(table) ==
    [h \in 1..Len(table.headerCells) |-> toHeaderKey(normalizeText(table.headerCells[h]))]

\* some header key of the table holds one of the words
KeyHolds(table, words) ==
    \E h \in 1..Len(table.headerCells) : Mentions(HeaderKeysOf(table)[h], words)

\* the issues that came from table k of the document
IssuesOfTable(k) ==
    {i \in 1..Len(pIssues) :
        pIssues[i].origin.kind = "table row" /\ pIssues[i].origin.at = k}

\* C15: a table gives issues only if its header keys hold a severity-like key
\* (severity, impact, level) and a description-like or a title-like key; a
\* table with the headers Name and Date gives none.  At the return
\* tablesFound is the number of tables of the document, matchedTables the
\* number of tables that gave an issue, which is at most tablesFound, and
\* issuesExtracted the length of the issue list.
IssueTablesAndCounters ==
    ParseReturned =>
        /\ \A k \in 1..Len(pDoc.tables) :
              /\ IssuesOfTable(k) # {} =>
                    /\ KeyHolds(pDoc.tables[k], {<<"s", "e", "v", "e", "r", "i", "t",
                        "y">>, <<"i", "m", "p", "a", "c", "t">>, <<"l", "e", "v", "e", "l">>})
                    /\ \/ KeyHolds(pDoc.tables[k], DescriptionHeader)
                       \/ KeyHolds(pDoc.tables[k], TitleLikeHeader)
              /\ pDoc.tables[k].headerCells = <<<<"N", "a", "m", "e">>, <<"D", "a", "t",
                  "e">>>> =>
                    IssuesOfTable(k) = {}
        /\ pDebug.tablesFound = Len(pDoc.tables)
        /\ pDebug.matchedTables =
              Cardinality({k \in 1..Len(pDoc.tables) : IssuesOfTable(k) # {}})
        /\ pDebug.matchedTables <= pDebug.tablesFound
        /\ pDebug.issuesExtracted = Len(pIssues)

\* two tables, of which the second is an issue table with two issues
IssueTablesAndCountersWitness ==
    /\ ParseReturned
    /\ pDoc.tables = <<OtherTable, IssuesTable>>
    /\ IssuesOfTable(1) = {} /\ IssuesOfTable(2) = {1, 2}
    /\ pDebug.tablesFound = 2 /\ pDebug.matchedTables = 1
    /\ pDebug.issuesExtracted = 2

\* the cell of a row under a header of the table, empty without that header
Under(table, row, head) ==
    IF \E k \in 1..Len(table.headerCells) : table.headerCells[k] = head
    THEN row[CHOOSE k \in 1..Len(table.headerCells) : table.headerCells[k] = head]
    ELSE <<>>

\* what the claim says of the issue of a row
IssueOfRow(table, row) ==
    LET severity == Under(table, row, HeadSeverity)
        title == Under(table, row, HeadIssue)
        description == Under(table, row, HeadDescription)
        count == Under(table, row, HeadCount)
    IN  [severity |-> IF severity = CellCritical THEN "Critical"
                      ELSE IF severity = CellHigh THEN "Serious" ELSE "Unknown",
         title |-> IF title # <<>> THEN title
                   ELSE IF description # <<>> THEN description ELSE IssueTitle,
         description |-> IF description # <<>> THEN description ELSE title,
         occurrences |-> IF count = <<"3">> THEN 3 ELSE 1]

RECURSIVE IssuesOfRows(_, _, _)
\* the issues of the rows from r on, a row that has none of the cells named
\* by heads giving none
IssuesOfRows(table, r, heads) ==
    IF r > Len(table.dataRows) THEN <<>>
    ELSE (IF \E h \in heads : Under(table, table.dataRows[r], h) # <<>>
          THEN <<IssueOfRow(table, table.dataRows[r])>> ELSE <<>>)
             \o IssuesOfRows(table, r + 1, heads)

\* the fields of the issues returned that the claim is about
FieldsReturned ==
    [k \in 1..Len(fOut) |->
        [severity |-> fOut[k].severity, title |-> fOut[k].title,
         description |-> fOut[k].description, occurrences |-> fOut[k].occurrences]]

\* the table has the headers of an issue table
Accepted(table) ==
    table.headerCells \in {<<HeadSeverity, HeadDescription>>,
                           <<HeadIssue, HeadSeverity, HeadCount, HeadDescription>>}

\* the example of the claim
MinimalTableExample ==
    fIn.arg = [headerCells |-> <<<<"S", "e", "v", "e", "r", "i", "t", "y">>, <<"D", "e",
        "s", "c", "r", "i", "p", "t", "i", "o", "n">>>>,
               dataRows |-> << <<<<"C", "r", "i", "t", "i", "c", "a", "l">>, <<"I", "m",
                   "a", "g", "e", "s", " ", "m", "i", "s", "s", "i", "n", "g", " ", "a",
                   "l", "t", " ", "t", "e", "x", "t">>>> >>]
        => /\ Len(fOut) = 1
           /\ fOut[1].severity = "Critical"
           /\ fOut[1].description = <<"I", "m", "a", "g", "e", "s", " ", "m", "i", "s",
               "s", "i", "n", "g", " ", "a", "l", "t", " ", "t", "e", "x", "t">>
           /\ fOut[1].occurrences = 1

\* C16, as amended: of an accepted table every data row gives exactly one
\* issue when it has a severity value, a description or a title, and none
\* when it has none of the three; the severity of the issue is the
\* normalized severity cell, its title is the title cell or else the
\* description or else "Issue", its description the description cell or else
\* the title, and its occurrences 1 when there is no count column or the
\* count cannot be read.
RowsGiveIssues ==
    Applied("parseTableIssues") /\ Accepted(fIn.arg) =>
        /\ FieldsReturned = IssuesOfRows(fIn.arg, 1, {HeadSeverity, HeadDescription, HeadIssue})
        /\ MinimalTableExample

\* a row with a title only gives an issue, described by its title
RowsGiveIssuesWitness ==
    /\ Applied("parseTableIssues")
    /\ fIn.arg.headerCells = <<HeadIssue, HeadSeverity, HeadCount, HeadDescription>>
    /\ fIn.arg.dataRows = << <<CellLabel, Absent, Absent, Absent>>,
                             <<Absent, CellCritical, <<"0">>, CellImages>> >>
    /\ Len(fOut) = 2
    /\ fOut[1].severity = "Unknown" /\ fOut[1].description = CellLabel
    /\ fOut[2].title = CellImages /\ fOut[2].occurrences = 1

\* C16, as claimed: of an accepted table every data row gives exactly one
\* issue when it has a severity value or a description, and none when it has
\* neither.
RowsGiveIssuesAsClaimed ==
    Applied("parseTableIssues") /\ Accepted(fIn.arg) =>
        /\ FieldsReturned = IssuesOfRows(fIn.arg, 1, {HeadSeverity, HeadDescription})
        /\ MinimalTableExample

\* the table has a header cell that reads as head
HasColumn(table, head) == \E h \in 1..Len(table.headerCells) : table.headerCells[h] = head

\* C28: an optional field of an issue of a table (wcag, ruleId, page) is set
\* only when the table has a header column of that kind, and then to a text
\* of that column: no table of the pool has a column of rules or of pages,
\* and the only text under a column of success criteria is "1.1.1".  Of a
\* table whose headers are Severity and Description every issue has the
\* three fields absent.
OptionalFieldsFromTheirColumn ==
    Applied("parseTableIssues") =>
        \A k \in 1..Len(fOut) :
            /\ fOut[k].ruleId = Absent
            /\ fOut[k].page = Absent
            /\ fOut[k].wcag \in {Absent, CellCriterion}
            /\ fOut[k].wcag # Absent => HasColumn(fIn.arg, HeadWcag)

---------------------------------------------------------------------------
(* Claims about the category cards *)

\* the text begins with the word, whatever the letter case
BeginsWith(text, word) ==
    /\ Len(word) <= Len(text)
    /\ \A k \in 1..Len(word) : ToLowerChar(text[k]) = word[k]

CardPathKinds == {"card", "instance", "remainder", "gap-fill"}

\* the severity that the claim gives to an issue of the card path: by the
\* label of its element for the issues of a card, by what its title says is
\* missing for a placeholder
SeverityByOrigin(issue) ==
    IF issue.origin.kind = "gap-fill"
    THEN (IF Mentions(issue.title, {<<"p", "o", "t", "e", "n", "t", "i", "a", "l", " ",
        "v", "i", "o", "l", "a", "t", "i", "o", "n", "s">>})
          THEN "Moderate" ELSE "Critical")
    ELSE (IF BeginsWith(pDoc.elements[issue.origin.at].aria, <<"p", "o", "t", "e", "n",
        "t", "i", "a", "l">>)
          THEN "Moderate" ELSE "Critical")

CardPathSeveritiesOf(list) ==
    \A k \in 1..Len(list) :
        list[k].origin.kind \in CardPathKinds =>
            /\ list[k].severity = SeverityByOrigin(list[k])
            /\ list[k].severity \notin {"Serious", "Minor", "Unknown"}
            /\ list[k].origin.kind # "gap-fill" =>
                  \/ BeginsWith(pDoc.elements[list[k].origin.at].aria, <<"p", "o", "t",
                      "e", "n", "t", "i", "a", "l">>)
                  \/ BeginsWith(pDoc.elements[list[k].origin.at].aria, <<"v", "i", "o",
                      "l", "a", "t", "i", "o", "n">>)

\* C20: an issue of the category-card path (a card issue, a per-instance
\* issue, a remainder issue or a gap-fill placeholder) is Moderate when it
\* comes from a "Potential Violation" card or from missing potentials, and
\* Critical when it comes from a "Violation" card or from missing failures;
\* none is Serious, Minor or Unknown.
CardPathSeverities ==
    /\ CardPathSeveritiesOf(pIssues)
    /\ CardPathSeveritiesOf(pCardIssues)
    /\ CardPathSeveritiesOf(pSynth)

\* a return with a Moderate remainder, a Critical per-instance issue and a
\* Critical placeholder
CardPathSeveritiesWitness ==
    /\ ParseReturned
    /\ \E i, j, k \in 1..Len(pIssues) :
          /\ pIssues[i].origin.kind = "remainder" /\ pIssues[i].severity = "Moderate"
          /\ pIssues[j].origin.kind = "instance" /\ pIssues[j].severity = "Critical"
          /\ pIssues[k].origin.kind = "gap-fill" /\ pIssues[k].severity = "Critical"

---------------------------------------------------------------------------
(* Claims about onFilesSelected *)

\* the severity labels found in file k of the batch, as its debug record has them
LabelsOfFile(k) == bDebugByFile[k].debug.severityLabelsFound

\* the labels of file k name a High/Medium/Low word and no axe word
HmlOnlyFile(k) ==
    SomeNames(LabelsOfFile(k), HmlWords) /\ ~SomeNames(LabelsOfFile(k), AxeWords)

\* the labels of file k name an axe word, or critical and no High/Medium/Low word
AxeFileAt(k) ==
    \/ SomeNames(LabelsOfFile(k), AxeWords)
    \/ /\ ~SomeNames(LabelsOfFile(k), HmlWords)
       /\ SomeNames(LabelsOfFile(k), {<<"c", "r", "i", "t", "i", "c", "a", "l">>})

\* both vocabularies appear in the batch, in one file or over several
BothVocabularies ==
    /\ \E k \in 1..Len(bDebugByFile) : SomeNames(LabelsOfFile(k), AxeWords)
    /\ \E k \in 1..Len(bDebugByFile) : SomeNames(LabelsOfFile(k), HmlWords)

\* C13 as amended: the scheme set for a batch is "hml" when the labels of some
\* file of the batch name a High/Medium/Low word and no axe word; otherwise
\* "axe" when the labels of some file name an axe word (or critical alone);
\* otherwise "unknown".  So with both vocabularies in the batch the scheme is
\* "axe" exactly when every file that names a High/Medium/Low word names an
\* axe word too.  Until the batch is shown the scheme is "unknown".
BatchSchemeChosen ==
    IF bPc = "shown"
    THEN /\ uiSeverityScheme = "hml" <=>
                \E k \in 1..Len(bDebugByFile) : HmlOnlyFile(k)
         /\ uiSeverityScheme = "axe" <=>
                /\ ~\E k \in 1..Len(bDebugByFile) : HmlOnlyFile(k)
                /\ \E k \in 1..Len(bDebugByFile) : AxeFileAt(k)
         /\ uiSeverityScheme \in {"hml", "axe", "unknown"}
         /\ (BothVocabularies /\ ~\E k \in 1..Len(bDebugByFile) : HmlOnlyFile(k))
                => uiSeverityScheme = "axe"
    ELSE uiSeverityScheme = "unknown"

\* a file of High and a file of Serious are shown under "hml"
BatchSchemeChosenWitness ==
    /\ bPc = "shown"
    /\ bFiles = <<HmlFile, AxeFile>>
    /\ LabelsOfFile(1) = <<CellHigh>>
    /\ LabelsOfFile(2) = <<CellSerious>>
    /\ BothVocabularies
    /\ uiSeverityScheme = "hml"

\* C13 as claimed: with both vocabularies in the batch the scheme is "axe"
BatchSchemeAxe ==
    (bPc = "shown" /\ BothVocabularies) => uiSeverityScheme = "axe"

\* onFilesSelected has ended on a batch of several files
BatchEnded == bPc \in {"shown", "failed"} /\ Len(bFiles) > 1

\* the file could be read and parsed (each such file of the pool holds issues)
DidParse(file) == file.readable /\ file.doc.parses

\* the names of the files whose issues are displayed
FilesDisplayed ==
    UNION { {uiIssues[k].sourceFiles[j] : j \in 1..Len(uiIssues[k].sourceFiles)} :
              k \in 1..Len(uiIssues) }

\* the failure of the file is surfaced for that file: the parsed-file records
\* hold one of its name, with no issue found and a warning
SurfacedFor(file) ==
    \E k \in 1..Len(uiParsedFiles) :
        /\ uiParsedFiles[k].fileName = file.name
        /\ uiParsedFiles[k].issuesFound = 0
        /\ Len(uiParsedFiles[k].debug.warnings) > 0

\* C19: in a batch of several files, a file that cannot be read or cannot be
\* parsed contributes no issue and is surfaced for that file, and the batch
\* is not aborted: the issues of the files that did parse are consolidated
\* and shown.
FailedFileDoesNotAbort ==
    BatchEnded =>
        \A k \in 1..Len(bFiles) :
            IF DidParse(bFiles[k])
            THEN bFiles[k].name \in FilesDisplayed
            ELSE /\ bFiles[k].name \notin FilesDisplayed
                 /\ SurfacedFor(bFiles[k])

RECURSIVE Concatenation(_)
\* the lists of a list, one after the other
Concatenation(lists) ==
    IF Len(lists) = 0 THEN <<>> ELSE Head(lists) \o Concatenation(Tail(lists))

\* onFilesSelected is between the clearing of the state and its end
BatchRunning == bPc \in {"read", "parse", "merge"}

\* C18: for one batch of files consolidateIssues is called exactly once,
\* after parseStarkHtmlReport has returned for every file, on the issues of
\* all the files one after the other in file order; the issues displayed are
\* never those of a part of the batch; and a new selection clears the issues,
\* the parsed-file records and the overrides before any of its files is parsed.
ConsolidatedOnceOnWholeBatch ==
    /\ Len(bMerged) <= 1
    /\ Len(bMerged) = 1 =>
          /\ Len(bReturned) = Len(bFiles)
          /\ bMerged[1] = Concatenation(bReturned)
    /\ (bPc \in {"shown", "failed"} /\ Len(bFiles) > 0) => Len(bMerged) = 1
    /\ Len(uiIssues) > 0 =>
          /\ Len(bMerged) = 1
          /\ \A k \in 1..Len(bFiles) :
                DidParse(bFiles[k]) => bFiles[k].name \in FilesDisplayed
    /\ BatchRunning =>
          /\ uiIssues = <<>>
          /\ uiParsedFiles = <<>>
          /\ uiOverrides = {}

---------------------------------------------------------------------------
(* Claims about parseCategoriesCardIssues *)

\* what the aria-labels of the pool say, read by hand: whether a message
\* follows the prefix, and the count of the instances suffix (0 without one)
LabelSays ==
    [a \in {el.aria : el \in CardPool} |->
        IF a = AriaAltFive THEN [message |-> TRUE, declared |-> 5]
        ELSE IF a = AriaAltOne THEN [message |-> TRUE, declared |-> 1]
        ELSE IF a = AriaAltZero THEN [message |-> TRUE, declared |-> 0]
        ELSE IF a = AriaContrast THEN [message |-> TRUE, declared |-> 2]
        ELSE IF a = AriaLink THEN [message |-> TRUE, declared |-> 3]
        ELSE IF a = AriaNoCount THEN [message |-> TRUE, declared |-> 0]
        ELSE IF a = AriaRatio THEN [message |-> TRUE, declared |-> 0]
        ELSE [message |-> FALSE, declared |-> 0]]

\* the label begins with "Violation" or "Potential Violation"
IsFindingLabel(aria) ==
    \/ BeginsWith(aria, <<"v", "i", "o", "l", "a", "t", "i", "o", "n">>)
    \/ BeginsWith(aria, <<"p", "o", "t", "e", "n", "t", "i", "a", "l", " ", "v", "i", "o",
                          "l", "a", "t", "i", "o", "n">>)

\* the issues of a list that were made from element k
IssuesOfElement(issues, k) == SelectSeq(issues, LAMBDA i : i.origin.at = k)

RECURSIVE TotalOccurrences(_)
TotalOccurrences(issues) ==
    IF Len(issues) = 0 THEN 0
    ELSE Head(issues).occurrences + TotalOccurrences(Tail(issues))

\* C21: the card extractor neither drops nor merges findings.  Every element
\* whose aria-label begins with "Violation" or "Potential Violation" and has
\* a message yields at least one issue; two cards with the same text both
\* yield their issues; and the occurrences of the issues of a card sum to at
\* least the count its label declares.
CardsKeepFindings ==
    Applied("parseCategoriesCardIssues") =>
        /\ \A k \in 1..Len(fIn.arg) :
              (IsFindingLabel(fIn.arg[k].aria) /\ LabelSays[fIn.arg[k].aria].message) =>
                  /\ Len(IssuesOfElement(fOut, k)) >= 1
                  /\ TotalOccurrences(IssuesOfElement(fOut, k))
                         >= LabelSays[fIn.arg[k].aria].declared
        /\ (Len(fIn.arg) = 2 /\ fIn.arg[1] = fIn.arg[2]) =>
              Len(IssuesOfElement(fOut, 1)) = Len(IssuesOfElement(fOut, 2))
        /\ \A i \in 1..Len(fOut) : fOut[i].origin.at \in 1..Len(fIn.arg)

\* the labels of the pool that carry no instances suffix and a message, none
\* of them about alt text
LabelsWithoutCount == {AriaNoCount, AriaRatio}

\* C29: a card whose aria-label carries no "(N instances)" suffix counts as
\* one occurrence: a card that is not alt-text related and declares no count
\* yields one issue with occurrences 1, whatever digits its message or its
\* visible title hold.
UncountedCardIsOne ==
    Applied("parseCategoriesCardIssues") =>
        \A k \in 1..Len(fIn.arg) :
            fIn.arg[k].aria \in LabelsWithoutCount =>
                /\ Len(IssuesOfElement(fOut, k)) = 1
                /\ IssuesOfElement(fOut, k)[1].occurrences = 1

---------------------------------------------------------------------------
(* Claims about the fields of a ConsolidatedIssue *)

\* the snippet of an issue of the pool as normalizeText leaves it, by hand
SnippetText(snippet) ==
    IF snippet = PaddedSnippet THEN Snippet(0)
    ELSE IF snippet = <<" ">> THEN <<>>
    ELSE snippet

\* the entry that a snippet gives: itself, or its first SnippetMax - 1
\* characters and an ellipsis when it is longer than SnippetMax
EntryOf(snippet) ==
    IF Len(SnippetText(snippet)) <= 420 THEN SnippetText(snippet)
    ELSE SubSeq(SnippetText(snippet), 1, 419) \o <<Ellipsis>>

\* C22: the exampleSnippets of a ConsolidatedIssue, when present, are not
\* empty, at most 8, without duplicates, each at most 420 characters long,
\* and an entry cut from a longer snippet ends in an ellipsis.  (An absent
\* list is the empty list here.)  Each entry comes from a member's snippet,
\* and the list is absent exactly when no member has a snippet.
SnippetsBounded ==
    Applied("consolidateIssues") =>
        \A g \in 1..Len(fOut) :
            LET entries == fOut[g].exampleSnippets
                given == {fIn.arg[m].exampleSnippet : m \in
                             {fOut[g].members[j] : j \in 1..Len(fOut[g].members)}}
            IN  /\ Len(entries) <= 8
                /\ \A a, b \in 1..Len(entries) : a # b => entries[a] # entries[b]
                /\ \A a \in 1..Len(entries) :
                      /\ Len(entries[a]) \in 1..420
                      /\ \E s \in given : entries[a] = EntryOf(s)
                /\ \A a \in 1..Len(entries) :
                      (\A s \in given : entries[a] # SnippetText(s)) =>
                          /\ Len(entries[a]) = 420
                          /\ entries[a][420] = Ellipsis
                /\ entries = <<>> <=> \A s \in given : SnippetText(s) = <<>>

\* twelve snippets, the first two cut alike: eight entries, the first cut
SnippetsBoundedWitness ==
    /\ Applied("consolidateIssues")
    /\ Len(fIn.arg) = 12
    /\ fIn.arg[1].exampleSnippet = LongerSnippet
    /\ fIn.arg[2].exampleSnippet = OtherLongerSnippet
    /\ Len(fOut) = 1
    /\ Len(fOut[1].exampleSnippets) = 8
    /\ Len(fOut[1].exampleSnippets[1]) = 420
    /\ fOut[1].exampleSnippets[1][420] = Ellipsis
    /\ fOut[1].exampleSnippets[8] = Snippet(7)

---------------------------------------------------------------------------

\* the grouping key of an issue of the pools, by hand: the lower case of
\* ruleId, wcag, title and description joined by "|"
KeySaid(issue) ==
    CASE issue.ruleId = <<"r">> -> "r||a|d"
      [] issue.ruleId = <<"a", "|", "b">> -> "a|b||t|d"
      [] issue.ruleId = <<"a">> /\ issue.wcag = <<"b">> -> "a|b|t|d"
      [] issue.ruleId = <<"a">> /\ issue.wcag = <<"b", "|">> -> "a|b||t|d"
      [] OTHER -> "||a|d"

\* the count of an issue, a count that is no finite number being 1
CountSaid(issue) == IF issue.occurrences \in {1, 2} THEN issue.occurrences ELSE 1

RECURSIVE CountSum(_, _)
\* the counts of the issues of a list at the places of a set
CountSum(raw, places) ==
    IF places = {} THEN 0
    ELSE LET m == CHOOSE x \in places : TRUE
         IN  CountSaid(raw[m]) + CountSum(raw, places \ {m})

\* the places in the input of the issues merged into group g
MembersOf(g) == {fOut[g].members[j] : j \in 1..Len(fOut[g].members)}

\* C26: consolidation conserves counts.  The occurrences of the issues
\* returned sum to the occurrences of the issues given, a count that is no
\* finite number being 1; every issue given is a member of exactly one group,
\* whose occurrences are the sum over its members; and there are as many
\* groups as there are grouping keys among the issues given.
CountsConserved ==
    Applied("consolidateIssues") =>
        /\ TotalOccurrences(fOut) = CountSum(fIn.arg, 1..Len(fIn.arg))
        /\ \A m \in 1..Len(fIn.arg) :
              Cardinality({g \in 1..Len(fOut) : m \in MembersOf(g)}) = 1
        /\ \A g \in 1..Len(fOut) :
              /\ MembersOf(g) \subseteq 1..Len(fIn.arg)
              /\ Len(fOut[g].members) = Cardinality(MembersOf(g))
              /\ fOut[g].occurrences = CountSum(fIn.arg, MembersOf(g))
        /\ Len(fOut) = Cardinality({KeySaid(fIn.arg[m]) : m \in 1..Len(fIn.arg)})

\* three issues of two keys, one count no finite number: two groups, of
\* three and of two occurrences
CountsConservedWitness ==
    /\ Applied("consolidateIssues")
    /\ Len(fIn.arg) = 3
    /\ fIn.arg[1].occurrences = NoNumber /\ fIn.arg[1].title = <<"a">>
    /\ fIn.arg[2].occurrences = 2 /\ fIn.arg[2].ruleId = <<"r">>
    /\ fIn.arg[3].occurrences = 2 /\ fIn.arg[3].title = <<"A">>
    /\ fIn.arg[1].ruleId = Absent
    /\ Len(fOut) = 2
    /\ fOut[1].occurrences = 3 /\ fOut[1].members = <<1, 3>>
    /\ fOut[2].occurrences = 2 /\ fOut[2].members = <<2>>


\* ruleId, wcag, title and description of an issue of the pools in lower
\* case, by hand
FieldsSaid(issue) ==
    CASE issue.ruleId = <<"r">> -> <<"r", "", "a", "d">>
      [] issue.ruleId = <<"a", "|", "b">> -> <<"a|b", "", "t", "d">>
      [] issue.ruleId = <<"a">> /\ issue.wcag = <<"b">> -> <<"a", "b", "t", "d">>
      [] issue.ruleId = <<"a">> /\ issue.wcag = <<"b", "|">> -> <<"a", "b|", "t", "d">>
      [] OTHER -> <<"", "", "a", "d">>

\* C27: consolidateIssues merges two issues only if their ruleId, wcag, title
\* and description are the same, field by field, but for case: two members of
\* one group have the same four fields, also when a field holds the "|" that
\* separates the fields in the key.
MergedOnlyIfFieldsEqual ==
    Applied("consolidateIssues") =>
        \A g \in 1..Len(fOut) :
            \A m, n \in MembersOf(g) : FieldsSaid(fIn.arg[m]) = FieldsSaid(fIn.arg[n])

(* Claims about extractBestWcagLabelFromAncestors *)

\* what the texts of the pool say, read by hand: the label without its
\* counters, and the number of its numeric segments (0: not of the form
\* "N.N Name")
CriterionSaid ==
    [t \in UNION {{texts[k] : k \in 1..Len(texts)} : texts \in ButtonTextPool} |->
        IF t = LabelNonText THEN [label |-> t, segments |-> 3]
        ELSE IF t = LabelDistinguishable
             THEN [label |-> <<"1", ".", "4", " ", "D", "i", "s", "t", "i", "n", "g", "u",
                 "i", "s", "h", "a", "b", "l", "e">>, segments |-> 2]
        ELSE IF t = LabelContrast
             THEN [label |-> <<"1", ".", "4", ".", "3", " ", "C", "o", "n", "t", "r", "a",
                 "s", "t", " ", "(", "M", "i", "n", "i", "m", "u", "m", ")">>, segments |-> 3]
        ELSE IF t = LabelAdaptable THEN [label |-> t, segments |-> 2]
        ELSE IF t = LabelInfo THEN [label |-> t, segments |-> 3]
        ELSE IF t = LabelDotted THEN [label |-> t, segments |-> 2]
        ELSE [label |-> Absent, segments |-> 0]]

\* what the text of div d in the button of element k of the chain says
SaidAt(chain, c) == CriterionSaid[chain[c.at].buttonTexts[c.div]]

\* the candidates among the first 15 elements of the chain: the place of a
\* list item and the place of a div in its button whose text is a label
CandidatesSaid(chain) ==
    { c \in [at : 1..15, div : 1..2] :
        /\ c.at <= Len(chain)
        /\ chain[c.at].tag = "LI"
        /\ c.div <= Len(chain[c.at].buttonTexts)
        /\ SaidAt(chain, c).segments > 0 }

\* candidate c comes before candidate e on the way up from the element
NearerThan(c, e) == c.at < e.at \/ (c.at = e.at /\ c.div < e.div)

\* C23: extractBestWcagLabelFromAncestors examines at most 15 elements of
\* the ancestor chain and ignores the list items beyond them; of the labels
\* it finds it returns the one with the most numeric segments, the one found
\* nearest to the starting element when several have as many; it returns no
\* label when none of the form "N.N Name" is found.
MostSpecificLabel ==
    Applied("extractBestWcagLabelFromAncestors") =>
        IF CandidatesSaid(fIn.arg) = {}
        THEN fOut = Absent
        ELSE \E c \in CandidatesSaid(fIn.arg) :
                /\ fOut = SaidAt(fIn.arg, c).label
                /\ \A e \in CandidatesSaid(fIn.arg) :
                      \/ e = c
                      \/ SaidAt(fIn.arg, e).segments < SaidAt(fIn.arg, c).segments
                      \/ /\ SaidAt(fIn.arg, e).segments = SaidAt(fIn.arg, c).segments
                         /\ NearerThan(c, e)

---------------------------------------------------------------------------
(* Claims about the remediation plan *)

\* groupIssues has run, on a list from a caller or within the plan
PlanGrouped ==
    fPc = "done" /\ fIn.fn \in {"groupIssues", "issuesToRemediationPlanHtml"}

\* C24: records are not changed by other components once they are made: the
\* plan (through groupIssues) leaves every ConsolidatedIssue it is given as
\* it was, with its occurrences, severity, pages and sourceFiles, also when
\* two of the issues have the same category and key.
PlanLeavesIssuesAlone ==
    PlanGrouped =>
        /\ Len(fOut.issues) = Len(fOut.given)
        /\ \A k \in 1..Len(fOut.given) :
              /\ fOut.issues[k].occurrences = fOut.given[k].occurrences
              /\ fOut.issues[k].severity = fOut.given[k].severity
              /\ fOut.issues[k].pages = fOut.given[k].pages
              /\ fOut.issues[k].sourceFiles = fOut.given[k].sourceFiles


\* the plan has been made of the list that consolidateIssues returned
PlanOfConsolidated == fPc = "done" /\ fIn.fn = "issuesToRemediationPlanHtml"

---------------------------------------------------------------------------
(* Claims about the warnings of parseStarkHtmlReport *)

\* the warnings that say why no issue may have been found
WarnsNotParsable == "DOMParser failed to parse HTML."
WarnsFallback == "No issue tables matched; using fallback heuristic."
WarnsBreakdownOnly ==
    "WCAG breakdown counts detected; using them to ensure totals align even if sections are collapsed."

\* debug.warnings holds the warning of this text
Warns(text) == \E w \in 1..Len(pDebug.warnings) : pDebug.warnings[w].text = text

\* parseStarkHtmlReport has returned an empty issue list
ReturnedNoIssues == pPc = "returned" /\ ~pThrown /\ Len(pIssues) = 0

\* C25: whenever parseStarkHtmlReport returns no issue, debug.warnings holds
\* a warning that explains it: the document could not be parsed, or no table
\* matched and the fallback heuristic was used, or only the counts of the
\* WCAG breakdown were found.
EmptyParseIsExplained ==
    ReturnedNoIssues =>
        /\ Len(pDebug.warnings) > 0
        /\ Warns(WarnsNotParsable) \/ Warns(WarnsFallback) \/ Warns(WarnsBreakdownOnly)
        /\ ~pDoc.parses => Warns(WarnsNotParsable)
        /\ (pDoc.parses /\ Len(pBreakdown) = 0) => Warns(WarnsFallback)
        /\ (pDoc.parses /\ Len(pBreakdown) > 0) => Warns(WarnsBreakdownOnly)

\* no issue is returned of a document that parses and holds nothing the
\* extractors take up
EmptyParseIsExplainedWitness ==
    /\ ReturnedNoIssues
    /\ pDoc.parses
    /\ Len(pBreakdown) = 0
    /\ pRan = <<"table", "card", "heuristic">>
    /\ Warns(WarnsFallback)

====
